---- MODULE Spec2Model ----
(***************************************************************************)
(* Model of the chess client in src/src/main.ts: the board, the piece      *)
(* flags, the serialisation codec, the check detector isInCheck, the move  *)
(* validator isMoveLegal and the App handlers (pointer down, pointer up /  *)
(* onPiecePlaced, inbound "set", the reset key).                           *)
(***************************************************************************)
EXTENDS Integers, Sequences, FiniteSets, TLC

VARIABLES board, selectedPiece, detached, draggingPiece, outbox, last,
          moves, sets, probe, heap, session

vars == <<board, selectedPiece, detached, draggingPiece, outbox, last,
          moves, sets, probe, heap, session>>

\* ------------------------------------------------------------------ bounds
\* applied moves in one behaviour
MaxMoves == 1
\* inbound "set" messages handled in one behaviour
MaxSets == 1

\* ------------------------------------------------------- the data model
Files == 0..7
Squares == Files \X Files

\* the value of an unoccupied square (BoardSquare.occupant = null) and of
\* App.selectedPiece = null
null ==
  [type |-> "None", color |-> "None", position |-> <<0, 0>>,
   enPassant |-> FALSE, notMoved |-> FALSE]

\* new ChessPiece(type, color, position): PieceState starts with
\* enPassant = false and notMoved = true
ChessPiece(type, color, position) ==
  [type |-> type, color |-> color, position |-> position,
   enPassant |-> FALSE, notMoved |-> TRUE]

\* new ChessBoard(): 8 x 8 squares, all unoccupied
ChessBoard == [s \in Squares |-> null]

Abs(n) == IF n < 0 THEN -n ELSE n
Min(a, b) == IF a < b THEN a ELSE b
Max(a, b) == IF a > b THEN a ELSE b

\* ChessBoard.copyState(): a new grid whose squares hold the same occupants
copyState(b) == [s \in Squares |-> b[s]]

\* difference.y / difference.x > 0 in IEEE arithmetic: n/0 is +-Infinity,
\* 0/0 is NaN
positiveSlope(dx, dy) ==
  IF dx = 0 THEN dy > 0
  ELSE (dx > 0 /\ dy > 0) \/ (dx < 0 /\ dy < 0)

\* the diagonal scan always taken along the rising diagonal
diagonalObstructed_risingOnly(b, slope, startFile, endFile, startRank, endRank) ==
  \E k \in 1..7 :
    /\ startFile + k <= endFile - 1
    /\ startRank + k <= endRank - 1
    /\ b[<<startFile + k, startRank + k>>] # null

\* the diagonal scan shared by the Bishop and Queen branches: from
\* (startFile+1, startRank+1) upward, or from (startFile+1, endRank-1)
\* downward, stopping at the first occupied square
diagonalObstructed(b, slope, startFile, endFile, startRank, endRank) ==
  IF slope
  THEN \E k \in 1..7 :
         /\ startFile + k <= endFile - 1
         /\ startRank + k <= endRank - 1
         /\ b[<<startFile + k, startRank + k>>] # null
  ELSE \E k \in 1..7 :
         /\ startFile + k <= endFile - 1
         /\ endRank - k >= startRank + 1
         /\ b[<<startFile + k, endRank - k>>] # null

\* the horizontal scan finding nothing
horizontalObstructed_never(b, startFile, endFile, y) == FALSE

\* for (x = startFile + 1; x <= endFile - 1; x++) on rank y
horizontalObstructed(b, startFile, endFile, y) ==
  \E x \in Files :
    /\ startFile + 1 <= x
    /\ x <= endFile - 1
    /\ b[<<x, y>>] # null

\* the vertical scan with the flag never raised
verticalObstructed_never(b, startRank, endRank, x) == FALSE

\* for (y = startRank + 1; y <= endRank - 1; y++) on file x; the check
\* detector's loop sets obstructed and continues, the validator's returns
verticalObstructed(b, startRank, endRank, x) ==
  \E y \in Files :
    /\ startRank + 1 <= y
    /\ y <= endRank - 1
    /\ b[<<x, y>>] # null

\* ------------------------------------------------------ the check detector
\* the first double loop of isInCheck: the last king of `color` in the
\* scan order i = 0..7, j = 0..7, or (-1, -1)
kingPosition(b, color) ==
  LET kings == {s \in Squares : b[s].color = color /\ b[s].type = "King"}
  IN IF kings = {} THEN <<-1, -1>>
     ELSE CHOOSE s \in kings :
            \A t \in kings : t[1] * 8 + t[2] <= s[1] * 8 + s[2]

\* the body of switch (attacker.type): does this enemy piece give check to
\* a king on `king`; the attacker is located by its stored position
attackerHits(b, attacker, king) ==
  LET ax == attacker.position[1]
      ay == attacker.position[2]
      dx == king[1] - ax
      dy == king[2] - ay
      slope == positiveSlope(dx, dy)
      startFile == Min(ax, king[1])
      endFile == Max(ax, king[1])
      startRank == Min(ay, king[2])
      endRank == Max(ay, king[2])
      diagonal ==
        /\ Abs(dx) = Abs(dy)
        /\ ~diagonalObstructed(b, slope, startFile, endFile, startRank, endRank)
      horizontal ==
        /\ dy = 0
        /\ ~horizontalObstructed(b, startFile, endFile, ay)
      vertical ==
        /\ dx = 0
        /\ ~verticalObstructed(b, startRank, endRank, ax)
  IN CASE attacker.type = "Pawn" ->
            /\ Abs(dx) = 1
            /\ ay + (IF attacker.color = "Light" THEN 1 ELSE -1) = king[2]
       [] attacker.type = "Knight" ->
            \/ Abs(dx) = 1 /\ Abs(dy) = 2
            \/ Abs(dx) = 2 /\ Abs(dy) = 1
       [] attacker.type = "Bishop" -> diagonal
       [] attacker.type = "Rook" -> horizontal \/ vertical
       [] attacker.type = "Queen" -> diagonal \/ horizontal \/ vertical
       [] attacker.type = "King" -> Abs(dx) <= 1 /\ Abs(dy) <= 1
       [] OTHER -> FALSE

\* the detector without the return for a king that was not found
isInCheck_kingNotLookedFor(b, color) ==
  LET king == kingPosition(b, color)
  IN \E s \in Squares :
       /\ b[s] # null
       /\ b[s].color # color
       /\ attackerHits(b, b[s], king)

isInCheck(b, color) ==
  LET king == kingPosition(b, color)
  IN IF king = <<-1, -1>> THEN FALSE
     ELSE \E s \in Squares :
            /\ b[s] # null
            /\ b[s].color # color
            /\ attackerHits(b, b[s], king)

\* ------------------------------------------------------ the move validator
\* the speculative board with the origin left occupied
speculativeBoard_originKept(b, piece, to) ==
  [copyState(b) EXCEPT ![to] = piece]

\* the speculative board of isMoveLegal: a copy with the piece's origin
\* emptied and the same piece object (stored position unchanged) on `to`
speculativeBoard(b, piece, to) ==
  [copyState(b) EXCEPT ![piece.position] = null, ![to] = piece]

\* the pawn rules with the en-passant test not looking at the colour of the
\* pawn behind the destination
pawnLegal_anyFlag(b, piece, to) ==
  LET px == piece.position[1]
      py == piece.position[2]
      fwd == IF piece.color = "Light" THEN 1 ELSE -1
      behind == <<to[1], to[2] - fwd>>
  IN \/ /\ to = <<px, py + fwd>>
        /\ b[to] = null
     \/ /\ piece.notMoved
        /\ to = <<px, py + 2 * fwd>>
        /\ b[to] = null
        /\ b[behind] = null
     \/ /\ to = <<px + 1, py + fwd>> \/ to = <<px - 1, py + fwd>>
        /\ \/ b[to] # null
           \/ /\ b[behind] # null
              /\ b[behind].enPassant

\* the pawn rules with the double step not looking at the square passed
pawnLegal_jumps(b, piece, to) ==
  LET px == piece.position[1]
      py == piece.position[2]
      fwd == IF piece.color = "Light" THEN 1 ELSE -1
      behind == <<to[1], to[2] - fwd>>
  IN \/ /\ to = <<px, py + fwd>>
        /\ b[to] = null
     \/ /\ piece.notMoved
        /\ to = <<px, py + 2 * fwd>>
        /\ b[to] = null
     \/ /\ to = <<px + 1, py + fwd>> \/ to = <<px - 1, py + fwd>>
        /\ \/ b[to] # null
           \/ /\ b[behind] # null
              /\ b[behind].enPassant
              /\ b[behind].color # piece.color

\* case PieceType.Pawn of the validator, both colours
pawnLegal(b, piece, to) ==
  LET px == piece.position[1]
      py == piece.position[2]
      fwd == IF piece.color = "Light" THEN 1 ELSE -1
      behind == <<to[1], to[2] - fwd>>
  IN \/ /\ to = <<px, py + fwd>>
        /\ b[to] = null
     \/ /\ piece.notMoved
        /\ to = <<px, py + 2 * fwd>>
        /\ b[to] = null
        /\ b[behind] = null
     \/ /\ to = <<px + 1, py + fwd>> \/ to = <<px - 1, py + fwd>>
        /\ \/ b[to] # null
           \/ /\ b[behind] # null
              /\ b[behind].enPassant
              /\ b[behind].color # piece.color

\* the castling test with the passed square taken on the wrong side
kingLegal_mirroredPass(b, piece, to) ==
  LET px == piece.position[1]
      py == piece.position[2]
      dx == to[1] - px
      dy == to[2] - py
      longCastle == dx < 0
      passed == <<px + (IF longCastle THEN -1 ELSE 1), py>>
      mirrored == <<px + (IF longCastle THEN 1 ELSE -1), py>>
      corner == <<IF longCastle THEN 0 ELSE 7, py>>
      midCastleState == [copyState(b) EXCEPT ![piece.position] = null,
                                             ![mirrored] = piece]
  IN \/ Abs(dx) <= 1 /\ Abs(dy) <= 1
     \/ /\ dy = 0
        /\ Abs(dx) = 2
        /\ piece.notMoved
        /\ ~isInCheck(midCastleState, piece.color)
        /\ b[passed] = null
        /\ b[corner] # null
        /\ b[corner].type = "Rook"
        /\ b[corner].notMoved = TRUE

\* case PieceType.King of the validator: a step to an adjacent square, or
\* castling
kingLegal(b, piece, to) ==
  LET px == piece.position[1]
      py == piece.position[2]
      dx == to[1] - px
      dy == to[2] - py
      longCastle == dx < 0
      passed == <<px + (IF longCastle THEN -1 ELSE 1), py>>
      corner == <<IF longCastle THEN 0 ELSE 7, py>>
      midCastleState == [copyState(b) EXCEPT ![piece.position] = null,
                                             ![passed] = piece]
  IN \/ Abs(dx) <= 1 /\ Abs(dy) <= 1
     \/ /\ dy = 0
        /\ Abs(dx) = 2
        /\ piece.notMoved
        /\ ~isInCheck(midCastleState, piece.color)
        /\ b[passed] = null
        /\ b[corner] # null
        /\ b[corner].type = "Rook"
        /\ b[corner].notMoved = TRUE

\* switch (piece.type) of the validator
shapeLegal(b, piece, to) ==
  LET px == piece.position[1]
      py == piece.position[2]
      dx == to[1] - px
      dy == to[2] - py
      slope == positiveSlope(dx, dy)
      startFile == Min(px, to[1])
      endFile == Max(px, to[1])
      startRank == Min(py, to[2])
      endRank == Max(py, to[2])
      diagonal == Abs(dx) = Abs(dy)
      diagonalFree ==
        ~diagonalObstructed(b, slope, startFile, endFile, startRank, endRank)
      horizontalFree == ~horizontalObstructed(b, startFile, endFile, py)
      verticalFree == ~verticalObstructed(b, startRank, endRank, px)
  IN CASE piece.type = "Pawn" -> pawnLegal(b, piece, to)
       [] piece.type = "Knight" ->
            \/ Abs(dx) = 1 /\ Abs(dy) = 2
            \/ Abs(dx) = 2 /\ Abs(dy) = 1
       [] piece.type = "Bishop" -> diagonal /\ diagonalFree
       [] piece.type = "Rook" ->
            IF dy = 0 THEN horizontalFree
            ELSE IF dx = 0 THEN verticalFree
            ELSE FALSE
       [] piece.type = "Queen" ->
            IF diagonal THEN diagonalFree
            ELSE IF dy = 0 THEN horizontalFree
            ELSE IF dx = 0 THEN verticalFree
            ELSE FALSE
       [] piece.type = "King" -> kingLegal(b, piece, to)
       [] OTHER -> FALSE

\* isMoveLegal(board, piece, newLocation).  The result is "true" or "false",
\* or "TypeError" when the function throws: the bounds check lets 8 through
\* and board.squares[8] (or board.squares[x][8]) is undefined.
\* The source runs the self-check test before the switch on the piece type
\* and returns true only when both let the move through; both are total on
\* a destination of the board, so the conjunction is written with the
\* cheaper test first.
isMoveLegal(b, piece, to) ==
  IF to[1] > 8 \/ to[1] < 0 \/ to[2] > 8 \/ to[2] < 0 THEN "false"
  ELSE IF piece.position = to THEN "false"
  ELSE IF to[1] = 8 \/ to[2] = 8 THEN "TypeError"
  ELSE IF b[to] # null /\ b[to].color = piece.color THEN "false"
  ELSE IF /\ shapeLegal(b, piece, to)
          /\ ~isInCheck(speculativeBoard(b, piece, to), piece.color)
       THEN "true"
  ELSE "false"

\* ------------------------------------------------------------- the codec
\* characters are their UTF-16 code units; a serial string is a sequence
chr_a == 97
chr_0 == 48
chr_1 == 49
\* the number NaN: no index of the board
NaN == -1000

\* the switch on occupant.type in ChessBoard.toSerial
typeLetter(type) ==
  CASE type = "Pawn" -> 112
    [] type = "Knight" -> 110
    [] type = "Bishop" -> 98
    [] type = "Rook" -> 114
    [] type = "Queen" -> 113
    [] type = "King" -> 107

\* the switch on chunk.charAt(0) in ChessBoard.fromSerial; Pawn by default
letterType(c) ==
  CASE c = 112 -> "Pawn"
    [] c = 110 -> "Knight"
    [] c = 98 -> "Bishop"
    [] c = 114 -> "Rook"
    [] c = 113 -> "Queen"
    [] c = 107 -> "King"
    [] OTHER -> "Pawn"

\* vec2ChessCoords: the file letter 'a' + x, then y + 1 in decimal
vec2ChessCoords(v) == <<chr_a + v[1], chr_0 + v[2] + 1>>

\* the decoder without the shift from rank digit to rank index
chessCoords2vec_rankNotShifted(cs) == <<cs[1] - chr_a, cs[2] - chr_0>>

\* chessCoords2vec: charCode - 'a', parseInt(digit) - 1.  A missing
\* character (0) has charCodeAt NaN, and parseInt of anything but a decimal
\* digit is NaN; NaN - 1 is NaN
chessCoords2vec(cs) ==
  <<IF cs[1] = 0 THEN NaN ELSE cs[1] - chr_a,
    IF cs[2] \in chr_0..(chr_0 + 9) THEN (cs[2] - chr_0) - 1 ELSE NaN>>

\* PieceState.toSerial
stateToSerial(p) ==
  vec2ChessCoords(p.position)
    \o <<IF p.enPassant THEN chr_1 ELSE chr_0>>
    \o <<IF p.notMoved THEN chr_1 ELSE chr_0>>

\* the 6-character record ChessBoard.toSerial appends for one occupant
pieceToSerial(p) ==
  <<typeLetter(p.type)>>
    \o <<IF p.color = "Light" THEN chr_0 ELSE chr_1>>
    \o stateToSerial(p)

\* the occupied squares in the order ChessBoard.toSerial visits them (files
\* 0..7 outside, ranks 0..7 inside): the n-th is the one with n - 1
\* occupied squares before it
scanIndex(s) == s[1] * 8 + s[2]

occupiedInOrder(b) ==
  LET occ == {s \in Squares : b[s] # null}
  IN [n \in 1..Cardinality(occ) |->
        CHOOSE s \in occ :
          Cardinality({t \in occ : scanIndex(t) < scanIndex(s)}) = n - 1]

\* ChessBoard.toSerial: the records of the occupants, concatenated
toSerial(b) ==
  LET order == occupiedInOrder(b)
  IN [n \in 1..(6 * Len(order)) |->
        pieceToSerial(b[order[((n - 1) \div 6) + 1]])[((n - 1) % 6) + 1]]

\* serial.substring(i, i + 6) for the k-th chunk; a position past the end
\* of the string holds no character (0)
chunkAt(serial, k) ==
  [j \in 1..6 |->
     IF 6 * (k - 1) + j <= Len(serial) THEN serial[6 * (k - 1) + j] ELSE 0]

\* the number of iterations of for (i = 0; i < serial.length; i += 6)
chunkCount(serial) == (Len(serial) + 5) \div 6

\* the piece ChessBoard.fromSerial builds from one chunk
pieceFromSerial(chunk) ==
  [type |-> letterType(chunk[1]),
   color |-> IF chunk[2] = chr_0 THEN "Light" ELSE "Dark",
   position |-> chessCoords2vec(<<chunk[3], chunk[4]>>),
   enPassant |-> chunk[5] = chr_1,
   notMoved |-> chunk[6] = chr_1]

\* ChessBoard.fromSerial throws a TypeError at
\* newBoard.squares[x][y].occupant = newPiece when a chunk's position is no
\* square of the board (squares[x] or squares[x][y] is undefined)
fromSerialThrows(serial) ==
  \E k \in 1..chunkCount(serial) :
    pieceFromSerial(chunkAt(serial, k)).position \notin Squares

\* the board ChessBoard.fromSerial returns when it does not throw: the
\* chunks are stored in order, so a square holds the piece of the last
\* chunk that names it
fromSerial(serial) ==
  LET pieces == [k \in 1..chunkCount(serial) |->
                   pieceFromSerial(chunkAt(serial, k))]
  IN [s \in Squares |->
        LET naming == {k \in DOMAIN pieces : pieces[k].position = s}
        IN IF naming = {} THEN null
           ELSE pieces[CHOOSE k \in naming : \A m \in naming : m <= k]]

\* ------------------------------------------------------------ the App
\* App.initializePieces on the empty board of createChessBoard
backRank ==
  <<"Rook", "Knight", "Bishop", "Queen", "King", "Bishop", "Knight", "Rook">>

initializePieces ==
  [s \in Squares |->
     CASE s[2] = 1 -> ChessPiece("Pawn", "Light", s)
       [] s[2] = 0 -> ChessPiece(backRank[s[1] + 1], "Light", s)
       [] s[2] = 6 -> ChessPiece("Pawn", "Dark", s)
       [] s[2] = 7 -> ChessPiece(backRank[s[1] + 1], "Dark", s)
       [] OTHER -> null]

\* App.clearSquare
clearSquare(b, coords) == [b EXCEPT ![coords] = null]

\* App.setSquare: a new piece of the given type and colour carrying the
\* given state
setSquare(b, coords, type, color, state) ==
  [clearSquare(b, coords) EXCEPT ![coords] =
     [type |-> type, color |-> color, position |-> state.position,
      enPassant |-> state.enPassant, notMoved |-> state.notMoved]]

\* setBoard without the clearing of the squares newBoard leaves empty
setBoard_noClear(b, newBoard) ==
  [s \in Squares |->
     IF newBoard[s] # null
     THEN setSquare(b, s, newBoard[s].type, newBoard[s].color, newBoard[s])[s]
     ELSE b[s]]

\* App.setBoard: every square is set from newBoard or cleared
setBoard(b, newBoard) ==
  [s \in Squares |->
     IF newBoard[s] # null
     THEN setSquare(b, s, newBoard[s].type, newBoard[s].color, newBoard[s])[s]
     ELSE clearSquare(b, s)[s]]

\* a relocation that leaves the piece on its origin as well
movePiece_originKept(b, from, to) ==
  IF b[from] = null THEN b
  ELSE LET piece == b[from]
       IN [clearSquare(b, to) EXCEPT
             ![to] = [piece EXCEPT !.position = to, !.notMoved = FALSE]]

\* a relocation that leaves the stored coordinate as it was
movePiece_positionKept(b, from, to) ==
  IF b[from] = null THEN b
  ELSE LET piece == b[from]
       IN [clearSquare(b, to) EXCEPT
             ![from] = null,
             ![to] = [piece EXCEPT !.notMoved = FALSE]]

\* a relocation that leaves notMoved as it was
movePiece_keepsFlag(b, from, to) ==
  IF b[from] = null THEN b
  ELSE LET piece == b[from]
       IN [clearSquare(b, to) EXCEPT
             ![from] = null,
             ![to] = [piece EXCEPT !.position = to]]

\* App.movePiece
movePiece(b, from, to) ==
  IF b[from] = null THEN b
  ELSE LET piece == b[from]
       IN [clearSquare(b, to) EXCEPT
             ![from] = null,
             ![to] = [piece EXCEPT !.position = to, !.notMoved = FALSE]]

\* onPiecePlaced, "Remove pawn in case of en passant"
removeEnPassant(b, sel, coords) ==
  LET behind == IF sel.color = "Light" THEN -1 ELSE 1
      sq == <<coords[1], coords[2] + behind>>
  IN IF /\ sel.type = "Pawn"
        /\ b[sq] # null
        /\ b[sq].color # sel.color
        /\ b[sq].enPassant
     THEN clearSquare(b, sq)
     ELSE b

\* the flag update with the clearing loop left out
clearEnPassant_none(b) == b

\* onPiecePlaced, "Update en passant status": every occupant loses the flag
clearEnPassant(b) ==
  [s \in Squares |-> IF b[s] # null THEN [b[s] EXCEPT !.enPassant = FALSE]
                     ELSE b[s]]

\* onPiecePlaced, "Add en passant status to this pawn until next turn": the
\* flag is written to the selected piece object, which is the occupant of
\* its stored square unless a "set" has replaced the board since it was
\* picked up (isDetached)
markEnPassant(b, sel, isDetached, coords) ==
  IF /\ sel.type = "Pawn"
     /\ Abs(sel.position[2] - coords[2]) = 2
     /\ ~isDetached
  THEN [b EXCEPT ![sel.position] = [@ EXCEPT !.enPassant = TRUE]]
  ELSE b

\* onPiecePlaced, "Handle rook movement when castling"
castleRook(b, sel, coords) ==
  IF sel.type = "King" /\ Abs(coords[1] - sel.position[1]) = 2
  THEN LET longCastle == (coords[1] - sel.position[1]) < 0
           rookPosition == <<IF longCastle THEN 0 ELSE 7, sel.position[2]>>
           newPosition == <<IF longCastle THEN sel.position[1] - 1
                            ELSE sel.position[1] + 1,
                            sel.position[2]>>
       IN movePiece(b, rookPosition, newPosition)
  ELSE b

\* the body of onPiecePlaced once isMoveLegal has accepted: the board after
\* the en-passant removal, the flag update, the rook relocation and the move
applyMove(b, sel, isDetached, coords) ==
  LET b1 == removeEnPassant(b, sel, coords)
      b2 == clearEnPassant(b1)
      b3 == markEnPassant(b2, sel, isDetached, coords)
      b4 == castleRook(b3, sel, coords)
  IN movePiece(b4, sel.position, coords)

\* the selected piece object after onPiecePlaced has applied a move
selectedAfter(b, sel, isDetached, coords) ==
  IF isDetached
  THEN [sel EXCEPT !.enPassant =
          @ \/ (sel.type = "Pawn" /\ Abs(sel.position[2] - coords[2]) = 2)]
  ELSE applyMove(b, sel, isDetached, coords)[coords]

\* socket.emit("move", vec2ChessCoords(oldPosition), vec2ChessCoords(coords))
noMessage == [name |-> "none", args |-> <<>>]
moveMessage(from, to) ==
  [name |-> "move", args |-> <<vec2ChessCoords(from), vec2ChessCoords(to)>>]
resetMessage == [name |-> "reset", args |-> <<>>]

\* the pointer is over no square (getBoardCoordsUnderPointer returns
\* undefined, getMeshUnderCursor hits nothing)
undefined == <<-1, -1>>

\* bookkeeping: the most recently applied move
\* (the piece dropped, whether it was an occupant of the board, its stored
\* square, the destination, the board before)
noMove ==
  [piece |-> null, onBoard |-> FALSE, from |-> undefined, to |-> undefined,
   before |-> ChessBoard]
noProbe ==
  [fn |-> "none", piece |-> null, to |-> undefined, color |-> "None",
   serial |-> <<>>, result |-> "none"]

\* no board or piece object is tracked
noHeap == [boards |-> <<>>, pieces |-> <<>>]

\* no synchronization session is tracked
noSession ==
  [canonical |-> ChessBoard, start |-> ChessBoard, peer |-> ChessBoard,
   requests |-> 0, resets |-> 0, pending |-> <<<<>>, <<>>>>,
   received |-> <<0, 0>>]

\* ------------------------------------------------- inputs of the handlers
\* a piece with explicit flags, and a board holding a set of pieces, each
\* on the square of its stored position
Piece(type, color, position, enPassant, notMoved) ==
  [type |-> type, color |-> color, position |-> position,
   enPassant |-> enPassant, notMoved |-> notMoved]

boardOf(pieces) ==
  [s \in Squares |->
     IF \E p \in pieces : p.position = s
     THEN CHOOSE p \in pieces : p.position = s
     ELSE null]

\* canonical states the server can broadcast.  Each is a position the
\* session reaches from the standard setup by applied moves.
\* Light K a5, P e5; Dark P d5 just advanced from d7, R h5, K h8
enPassantPinBoard ==
  boardOf({Piece("King", "Light", <<0, 4>>, FALSE, FALSE),
           Piece("Pawn", "Light", <<4, 4>>, FALSE, FALSE),
           Piece("Pawn", "Dark", <<3, 4>>, TRUE, FALSE),
           Piece("Rook", "Dark", <<7, 4>>, FALSE, FALSE),
           Piece("King", "Dark", <<7, 7>>, FALSE, FALSE)})

\* Light K c4, P e5; Dark P d7 on its home square, K h8
enPassantCheckBoard ==
  boardOf({Piece("King", "Light", <<2, 3>>, FALSE, FALSE),
           Piece("Pawn", "Light", <<4, 4>>, FALSE, FALSE),
           Piece("Pawn", "Dark", <<3, 6>>, FALSE, TRUE),
           Piece("King", "Dark", <<7, 7>>, FALSE, FALSE)})

\* kings and rooks at home, nothing between them, the a and h pawns at home
castleBoard ==
  boardOf({Piece("King", "Light", <<4, 0>>, FALSE, TRUE),
           Piece("Rook", "Light", <<0, 0>>, FALSE, TRUE),
           Piece("Rook", "Light", <<7, 0>>, FALSE, TRUE),
           Piece("Pawn", "Light", <<0, 1>>, FALSE, TRUE),
           Piece("Pawn", "Light", <<7, 1>>, FALSE, TRUE),
           Piece("King", "Dark", <<4, 7>>, FALSE, TRUE),
           Piece("Rook", "Dark", <<0, 7>>, FALSE, TRUE),
           Piece("Rook", "Dark", <<7, 7>>, FALSE, TRUE),
           Piece("Pawn", "Dark", <<0, 6>>, FALSE, TRUE),
           Piece("Pawn", "Dark", <<7, 6>>, FALSE, TRUE)})

\* the Light king has stepped to e2, its a1 rook has not moved
kingAwayBoard ==
  boardOf({Piece("King", "Light", <<4, 1>>, FALSE, FALSE),
           Piece("Rook", "Light", <<0, 0>>, FALSE, TRUE),
           Piece("King", "Dark", <<4, 7>>, FALSE, FALSE)})

PayloadBoards ==
  {initializePieces, enPassantPinBoard, enPassantCheckBoard, castleBoard,
   kingAwayBoard}

\* a state only a "set" can install, since play clears the flag of d5
\* before anything can come to stand on d6:
\* Light K a1, P e5; Dark P d5 carrying the flag, N d6, K h8
doubleCaptureBoard ==
  boardOf({Piece("King", "Light", <<0, 0>>, FALSE, FALSE),
           Piece("Pawn", "Light", <<4, 4>>, FALSE, FALSE),
           Piece("Pawn", "Dark", <<3, 4>>, TRUE, FALSE),
           Piece("Knight", "Dark", <<3, 5>>, FALSE, FALSE),
           Piece("King", "Dark", <<7, 7>>, FALSE, FALSE)})

InstalledBoards == {doubleCaptureBoard}

\* the strings carried by inbound "set" messages
SetPayloads == {toSerial(b) : b \in PayloadBoards \cup InstalledBoards}

\* ------------------------------------------------------------ the handlers
Init ==
  /\ board = initializePieces
  /\ selectedPiece = null
  /\ detached = FALSE
  /\ draggingPiece = FALSE
  /\ outbox = noMessage
  /\ last = [event |-> "init", applied |-> noMove]
  /\ moves = 0
  /\ sets = 0
  /\ probe = noProbe
  /\ heap = noHeap
  /\ session = noSession

\* scene.onPointerDown with the pointer over `target` (a square or a piece
\* standing on it) or over nothing
PointerDown(target) ==
  /\ moves < MaxMoves
  /\ LET picked == IF target # undefined /\ board[target] # null
                   THEN board[target] ELSE null
     IN /\ selectedPiece' = picked
        /\ detached' = FALSE
        /\ draggingPiece' = IF picked # null THEN TRUE ELSE draggingPiece
  /\ outbox' = noMessage
  /\ last' = [last EXCEPT !.event = "down"]
  /\ UNCHANGED session
  /\ UNCHANGED <<board, moves, sets, probe, heap>>

\* onPointerUp with a rejected drop relocating the piece all the same
PointerUp_rejectedApplied(coords) ==
  /\ draggingPiece
  /\ moves < MaxMoves
  /\ draggingPiece' = FALSE
  /\ IF selectedPiece = null \/ coords = undefined
     THEN /\ last' = [last EXCEPT !.event = "ignored"]
          /\ outbox' = noMessage
          /\ UNCHANGED <<board, selectedPiece, moves>>
     ELSE IF isMoveLegal(board, selectedPiece, coords) = "true"
     THEN /\ outbox' = moveMessage(selectedPiece.position, coords)
          /\ board' = applyMove(board, selectedPiece, detached, coords)
          /\ selectedPiece' =
               selectedAfter(board, selectedPiece, detached, coords)
          /\ last' = [event |-> "moved",
                      applied |-> [piece |-> selectedPiece,
                                   onBoard |-> ~detached,
                                   from |-> selectedPiece.position,
                                   to |-> coords,
                                   before |-> board]]
          /\ moves' = moves + 1
     ELSE /\ last' = [last EXCEPT !.event = "rejected"]
          /\ outbox' = noMessage
          /\ board' = movePiece(board, selectedPiece.position, coords)
          /\ UNCHANGED <<selectedPiece, moves>>
  /\ UNCHANGED session
  /\ UNCHANGED <<detached, sets, probe, heap>>

\* scene.onPointerUp while dragging, with the pointer over `coords`:
\* draggingPiece is cleared and onPiecePlaced runs
PointerUp(coords) ==
  /\ draggingPiece
  /\ moves < MaxMoves
  /\ draggingPiece' = FALSE
  /\ IF selectedPiece = null \/ coords = undefined
     THEN /\ last' = [last EXCEPT !.event = "ignored"]
          /\ outbox' = noMessage
          /\ UNCHANGED <<board, selectedPiece, moves>>
     ELSE IF isMoveLegal(board, selectedPiece, coords) = "true"
     THEN /\ outbox' = moveMessage(selectedPiece.position, coords)
          /\ board' = applyMove(board, selectedPiece, detached, coords)
          /\ selectedPiece' =
               selectedAfter(board, selectedPiece, detached, coords)
          /\ last' = [event |-> "moved",
                      applied |-> [piece |-> selectedPiece,
                                   onBoard |-> ~detached,
                                   from |-> selectedPiece.position,
                                   to |-> coords,
                                   before |-> board]]
          /\ moves' = moves + 1
     ELSE /\ last' = [last EXCEPT !.event = "rejected"]
          /\ outbox' = noMessage
          /\ UNCHANGED <<board, selectedPiece, moves>>
  /\ UNCHANGED session
  /\ UNCHANGED <<detached, sets, probe, heap>>

\* socket.on("set"): the board is replaced by the decoded state; a piece
\* picked up before stays referenced by selectedPiece but is no longer an
\* occupant of the board
Set(state) ==
  /\ sets < MaxSets
  /\ IF fromSerialThrows(state)
     THEN /\ last' = [last EXCEPT !.event = "set threw"]
          /\ UNCHANGED <<board, detached>>
     ELSE /\ board' = setBoard(board, fromSerial(state))
          /\ detached' = (selectedPiece # null)
          /\ last' = [event |-> "set", applied |-> noMove]
  /\ outbox' = noMessage
  /\ sets' = sets + 1
  /\ UNCHANGED session
  /\ UNCHANGED <<selectedPiece, draggingPiece, moves, probe, heap>>

\* the keydown listener for 'r'
ResetKey ==
  /\ moves < MaxMoves
  /\ outbox # resetMessage
  /\ outbox' = resetMessage
  /\ last' = [last EXCEPT !.event = "reset"]
  /\ UNCHANGED session
  /\ UNCHANGED <<board, selectedPiece, detached, draggingPiece, moves, sets,
                 probe, heap>>

Next ==
  \/ \E target \in Squares \cup {undefined} : PointerDown(target)
  \/ \E coords \in Squares \cup {undefined} : PointerUp(coords)
  \/ \E state \in SetPayloads : Set(state)
  \/ ResetKey

Spec == Init /\ [][Next]_vars

\* ------------------------------------------------------ play without sets
\* the pointer handlers on a position reached by play from the standard
\* setup, with no "set" arriving
\* Light K e1, B c4, N f3, P e4; Dark K e8, Q d8, N c6, P d5, P e5
skirmishBoard ==
  boardOf({Piece("King", "Light", <<4, 0>>, FALSE, FALSE),
           Piece("Bishop", "Light", <<2, 3>>, FALSE, FALSE),
           Piece("Knight", "Light", <<5, 2>>, FALSE, FALSE),
           Piece("Pawn", "Light", <<4, 3>>, FALSE, FALSE),
           Piece("King", "Dark", <<4, 7>>, FALSE, FALSE),
           Piece("Queen", "Dark", <<3, 7>>, FALSE, TRUE),
           Piece("Knight", "Dark", <<2, 5>>, FALSE, FALSE),
           Piece("Pawn", "Dark", <<3, 4>>, FALSE, FALSE),
           Piece("Pawn", "Dark", <<4, 4>>, FALSE, FALSE)})

\* the Light king and rooks on their home squares, unmoved, the knight
\* still on b1, c1, d1 and f1 vacated, and a Dark knight arrived on g1
crowdedCastleBoard ==
  boardOf({Piece("King", "Light", <<4, 0>>, FALSE, TRUE),
           Piece("Rook", "Light", <<0, 0>>, FALSE, TRUE),
           Piece("Knight", "Light", <<1, 0>>, FALSE, TRUE),
           Piece("Rook", "Light", <<7, 0>>, FALSE, TRUE),
           Piece("Knight", "Dark", <<6, 0>>, FALSE, FALSE),
           Piece("King", "Dark", <<4, 7>>, FALSE, FALSE)})

PlayBoards == PayloadBoards \cup {skirmishBoard, crowdedCastleBoard}

InitPlay ==
  /\ board \in PlayBoards
  /\ selectedPiece = null
  /\ detached = FALSE
  /\ draggingPiece = FALSE
  /\ outbox = noMessage
  /\ last = [event |-> "init", applied |-> noMove]
  /\ moves = 0
  /\ sets = 0
  /\ probe = noProbe
  /\ heap = noHeap
  /\ session = noSession

NextPlay ==
  \/ \E target \in Squares \cup {undefined} : PointerDown(target)
  \/ \E coords \in Squares \cup {undefined} : PointerUp(coords)

SpecPlay == InitPlay /\ [][NextPlay]_vars

\* ------------------------------------- the validator and the detector alone
\* boards handed to isMoveLegal and isInCheck directly
\* the Light rook on e4 is pinned to the king on e1 by the rook on e8
pinBoard ==
  boardOf({Piece("King", "Light", <<4, 0>>, FALSE, FALSE),
           Piece("Rook", "Light", <<4, 3>>, FALSE, FALSE),
           Piece("Rook", "Dark", <<4, 7>>, FALSE, FALSE),
           Piece("King", "Dark", <<7, 7>>, FALSE, FALSE)})

\* the Light king on e1 is in check from the rook on e8
inCheckBoard ==
  boardOf({Piece("King", "Light", <<4, 0>>, FALSE, FALSE),
           Piece("Knight", "Light", <<1, 0>>, FALSE, TRUE),
           Piece("Rook", "Dark", <<4, 7>>, FALSE, FALSE),
           Piece("King", "Dark", <<7, 7>>, FALSE, FALSE)})

\* castleBoard without the rook pawns, a Dark rook on f8 bearing on f1
castleAttackedBoard ==
  boardOf({Piece("King", "Light", <<4, 0>>, FALSE, TRUE),
           Piece("Rook", "Light", <<0, 0>>, FALSE, TRUE),
           Piece("Rook", "Light", <<7, 0>>, FALSE, TRUE),
           Piece("King", "Dark", <<4, 7>>, FALSE, FALSE),
           Piece("Rook", "Dark", <<5, 7>>, FALSE, FALSE)})

\* the Light king on e1 is in check along the rank from a rook on h1
castleXrayBoard ==
  boardOf({Piece("King", "Light", <<4, 0>>, FALSE, TRUE),
           Piece("Rook", "Light", <<0, 0>>, FALSE, TRUE),
           Piece("Rook", "Dark", <<7, 0>>, FALSE, FALSE),
           Piece("King", "Dark", <<4, 7>>, FALSE, FALSE)})

\* pieces put between a line piece and the king
MaxBlockers == 1

otherColor(color) == IF color = "Light" THEN "Dark" ELSE "Light"

\* a king of `color` on d4 and an enemy rook or queen on its file or rank
\* at a1-side or h8-side distance, with up to MaxBlockers pieces on the
\* squares between: an own pawn or an enemy bishop, neither of which
\* bears on the king along that line
lineEnds == {<<3, 7>>, <<3, 0>>, <<7, 3>>, <<0, 3>>}

lineBetween(a, c) ==
  {s \in Squares :
     /\ s # a /\ s # c
     /\ Min(a[1], c[1]) <= s[1] /\ s[1] <= Max(a[1], c[1])
     /\ Min(a[2], c[2]) <= s[2] /\ s[2] <= Max(a[2], c[2])}

lineBoard(color, kind, end, blocked, own) ==
  boardOf({Piece("King", color, <<3, 3>>, FALSE, FALSE),
           Piece(kind, otherColor(color), end, FALSE, FALSE)}
          \cup {Piece(IF s \in own THEN "Pawn" ELSE "Bishop",
                      IF s \in own THEN color ELSE otherColor(color),
                      s, FALSE, FALSE) : s \in blocked})

lineBoards(color) ==
  UNION {UNION {{lineBoard(color, kind, end, blocked, own) :
                   kind \in {"Rook", "Queen"}, own \in SUBSET blocked} :
                blocked \in {bs \in SUBSET lineBetween(<<3, 3>>, end) :
                               Cardinality(bs) <= MaxBlockers}} :
         end \in lineEnds}

\* boards holding no king of one colour: a board with that king taken off
withoutKing(b, color) ==
  [s \in Squares |->
     IF b[s].type = "King" /\ b[s].color = color THEN null ELSE b[s]]

kinglessBoards ==
  {withoutKing(b, color) :
     b \in {pinBoard, inCheckBoard, enPassantPinBoard},
     color \in {"Light", "Dark"}}

PureBoards ==
  PayloadBoards
    \cup {pinBoard, inCheckBoard, castleAttackedBoard, castleXrayBoard}
    \cup kinglessBoards
    \cup lineBoards("Light") \cup lineBoards("Dark")

\* destinations handed to isMoveLegal: the board and a margin around it
ProbeMargin == 2
ProbeTargets ==
  ((0 - ProbeMargin)..(7 + ProbeMargin)) \X ((0 - ProbeMargin)..(7 + ProbeMargin))

InitPure ==
  /\ board \in PureBoards
  /\ selectedPiece = null
  /\ detached = FALSE
  /\ draggingPiece = FALSE
  /\ outbox = noMessage
  /\ last = [event |-> "init", applied |-> noMove]
  /\ moves = 0
  /\ sets = 0
  /\ probe = noProbe
  /\ heap = noHeap
  /\ session = noSession

\* isMoveLegal(board, the occupant of `from`, to)
CallIsMoveLegal(from, to) ==
  /\ probe = noProbe
  /\ board[from] # null
  /\ probe' = [fn |-> "isMoveLegal", piece |-> board[from], to |-> to,
               color |-> board[from].color, serial |-> <<>>,
               result |-> isMoveLegal(board, board[from], to)]
  /\ UNCHANGED session
  /\ UNCHANGED <<board, selectedPiece, detached, draggingPiece, outbox, last,
                 moves, sets, heap>>

\* isInCheck(board, color)
CallIsInCheck(color) ==
  /\ probe = noProbe
  /\ probe' = [fn |-> "isInCheck", piece |-> null, to |-> undefined,
               color |-> color, serial |-> <<>>,
               result |-> IF isInCheck(board, color) THEN "true" ELSE "false"]
  /\ UNCHANGED session
  /\ UNCHANGED <<board, selectedPiece, detached, draggingPiece, outbox, last,
                 moves, sets, heap>>

\* strings handed to ChessBoard.fromSerial: the record of a Light king on
\* e1 followed by the record of a Dark queen on d8 that is whole, or has
\* one character replaced, or is cut short
kingRecord == pieceToSerial(Piece("King", "Light", <<4, 0>>, FALSE, TRUE))
queenRecord == pieceToSerial(Piece("Queen", "Dark", <<3, 7>>, TRUE, TRUE))

\* 'x', '2', '9', 'i', the space
OddCharacters == {120, 50, 57, 105, 32}

SerialInputs ==
  {kingRecord \o queenRecord}
    \cup {kingRecord \o [queenRecord EXCEPT ![j] = c] :
            j \in 1..6, c \in OddCharacters}
    \cup {kingRecord \o SubSeq(queenRecord, 1, n) : n \in 1..5}
    \cup {SubSeq(queenRecord, 1, n) \o kingRecord : n \in 1..5}

\* ChessBoard.fromSerial(serial): `board` becomes the board returned
CallFromSerial(serial) ==
  /\ probe = noProbe
  /\ probe' = [fn |-> "fromSerial", piece |-> null, to |-> undefined,
               color |-> "None", serial |-> serial,
               result |-> IF fromSerialThrows(serial) THEN "TypeError"
                          ELSE "board"]
  /\ board' = IF fromSerialThrows(serial) THEN board ELSE fromSerial(serial)
  /\ UNCHANGED session
  /\ UNCHANGED <<selectedPiece, detached, draggingPiece, outbox, last,
                 moves, sets, heap>>

\* one call per behaviour: the guard of the actions, tested here before
\* the arguments are drawn
NextPure ==
  \/ /\ probe = noProbe
     /\ \E from \in Squares, to \in ProbeTargets : CallIsMoveLegal(from, to)
  \/ /\ probe = noProbe
     /\ \E color \in {"Light", "Dark"} : CallIsInCheck(color)
  \/ /\ probe = noProbe
     /\ \E serial \in SerialInputs : CallFromSerial(serial)

SpecPure == InitPure /\ [][NextPure]_vars

\* ------------------------------------------------- the detector alone
\* boards handed to isInCheck: a king of `color` in the middle of the board
\* or in a corner, one piece of the other colour of any kind on any other
\* square and, for the king in the middle, at most one more piece on a
\* square next to the king (an own pawn or an enemy knight, which gives no
\* check from there)
AttackKingSquares == {<<3, 3>>, <<0, 0>>, <<7, 7>>}

PieceTypes == {"Pawn", "Knight", "Bishop", "Rook", "Queen", "King"}

nextTo(k) ==
  {s \in Squares : s # k /\ Abs(s[1] - k[1]) <= 1 /\ Abs(s[2] - k[2]) <= 1}

attackBoard(color, k, kind, at, blockers) ==
  boardOf({Piece("King", color, k, FALSE, FALSE),
           Piece(kind, otherColor(color), at, FALSE, FALSE)}
          \cup blockers)

\* the pieces that may stand next to the king of `color`
Bystanders(color) ==
  {Piece(bt[1], bt[2], s, FALSE, FALSE) :
     bt \in {<<"Pawn", color>>, <<"Knight", otherColor(color)>>},
     s \in nextTo(<<3, 3>>)}

InitAttack ==
  /\ \/ board \in PureBoards
     \/ \E color \in {"Light", "Dark"}, k \in AttackKingSquares,
           kind \in PieceTypes, at \in Squares :
          /\ at # k
          /\ board = attackBoard(color, k, kind, at, {})
     \/ \E color \in {"Light", "Dark"}, kind \in PieceTypes, at \in Squares :
          \E bystander \in Bystanders(color) :
            /\ at \notin {<<3, 3>>, bystander.position}
            /\ board = attackBoard(color, <<3, 3>>, kind, at, {bystander})
  /\ selectedPiece = null
  /\ detached = FALSE
  /\ draggingPiece = FALSE
  /\ outbox = noMessage
  /\ last = [event |-> "init", applied |-> noMove]
  /\ moves = 0
  /\ sets = 0
  /\ probe = noProbe
  /\ heap = noHeap
  /\ session = noSession

NextAttack ==
  /\ probe = noProbe
  /\ \E color \in {"Light", "Dark"} : CallIsInCheck(color)

SpecAttack == InitAttack /\ [][NextAttack]_vars

\* ------------------------------------------- the validator on line moves
\* boards handed to isMoveLegal for a bishop, rook or queen: the piece on d4
\* or on a1, the two kings on h2 and h6 (on no line through d4 or a1), and
\* at most one more piece, a pawn of either colour, on any other square
SliderSquares == {<<3, 3>>, <<0, 0>>}

SliderTypes == {"Bishop", "Rook", "Queen"}

sliderBoard(color, kind, at, others) ==
  boardOf({Piece("King", "Light", <<7, 1>>, FALSE, FALSE),
           Piece("King", "Dark", <<7, 5>>, FALSE, FALSE),
           Piece(kind, color, at, FALSE, FALSE)}
          \cup others)

InitSlide ==
  /\ \E color \in {"Light", "Dark"}, kind \in SliderTypes,
        at \in SliderSquares :
       \/ board = sliderBoard(color, kind, at, {})
       \/ \E s \in Squares \ {at, <<7, 1>>, <<7, 5>>},
             pawnColor \in {"Light", "Dark"} :
            board = sliderBoard(color, kind, at,
                                {Piece("Pawn", pawnColor, s, FALSE, FALSE)})
  /\ selectedPiece = null
  /\ detached = FALSE
  /\ draggingPiece = FALSE
  /\ outbox = noMessage
  /\ last = [event |-> "init", applied |-> noMove]
  /\ moves = 0
  /\ sets = 0
  /\ probe = noProbe
  /\ heap = noHeap
  /\ session = noSession

\* isMoveLegal for the bishop, rook or queen of the board
NextSlide ==
  /\ probe = noProbe
  /\ \E from \in SliderSquares, to \in Squares :
       /\ board[from].type \in SliderTypes
       /\ CallIsMoveLegal(from, to)

SpecSlide == InitSlide /\ [][NextSlide]_vars

\* ------------------------------------------- the validator on pawn moves
\* boards handed to isMoveLegal for a pawn: the pawn on its home square of
\* the e-file (hasNotMoved true) or on e4 or e5 (hasNotMoved false), the
\* kings on a1 and a8, and at most one more pawn, of either colour, with or
\* without the en-passant flag, on a square of the d-, e- or f-file
PawnFiles == {3, 4, 5}

PawnArea == PawnFiles \X Files

PawnSquares(color) ==
  {<<4, IF color = "Light" THEN 1 ELSE 6>>, <<4, 3>>, <<4, 4>>}

pawnBoard(color, at, others) ==
  boardOf({Piece("King", "Light", <<0, 0>>, FALSE, FALSE),
           Piece("King", "Dark", <<0, 7>>, FALSE, FALSE),
           Piece("Pawn", color, at, FALSE,
                 at[2] = (IF color = "Light" THEN 1 ELSE 6))}
          \cup others)

InitPawn ==
  /\ \E color \in {"Light", "Dark"} :
       \E at \in PawnSquares(color) :
         \/ board = pawnBoard(color, at, {})
         \/ \E s \in PawnArea \ {at}, otherPawn \in {"Light", "Dark"},
               flag \in BOOLEAN :
              board = pawnBoard(color, at,
                                {Piece("Pawn", otherPawn, s, flag, FALSE)})
  /\ selectedPiece = null
  /\ detached = FALSE
  /\ draggingPiece = FALSE
  /\ outbox = noMessage
  /\ last = [event |-> "init", applied |-> noMove]
  /\ moves = 0
  /\ sets = 0
  /\ probe = noProbe
  /\ heap = noHeap
  /\ session = noSession

\* isMoveLegal for a pawn of the board
NextPawn ==
  /\ probe = noProbe
  /\ \E from \in PawnArea, to \in PawnArea :
       /\ board[from].type = "Pawn"
       /\ CallIsMoveLegal(from, to)

SpecPawn == InitPawn /\ [][NextPawn]_vars

\* ------------------------------------------ the validator on king moves
\* boards handed to isMoveLegal for a king on its home square: the two
\* kings on e1 and e8, each corner of the mover's rank empty or holding a
\* rook (its own, unmoved or moved; or, on a board installed by a "set", an
\* unmoved rook of the other colour), and at most one more piece: a knight
\* of either colour on the mover's rank, or an enemy rook on the fifth rank
\* looking down a file the king would cross
homeRank(color) == IF color = "Light" THEN 0 ELSE 7

CornerChoices(color) ==
  {"none", "own unmoved", "own moved", "enemy unmoved"}

cornerPieces(color, file, choice) ==
  CASE choice = "none" -> {}
    [] choice = "own unmoved" ->
         {Piece("Rook", color, <<file, homeRank(color)>>, FALSE, TRUE)}
    [] choice = "own moved" ->
         {Piece("Rook", color, <<file, homeRank(color)>>, FALSE, FALSE)}
    [] choice = "enemy unmoved" ->
         {Piece("Rook", otherColor(color), <<file, homeRank(color)>>,
                FALSE, TRUE)}

CastleExtras(color) ==
  {{}}
    \cup {{Piece("Knight", c, <<f, homeRank(color)>>, FALSE, FALSE)} :
            c \in {"Light", "Dark"}, f \in {1, 2, 3, 5, 6}}
    \cup {{Piece("Rook", otherColor(color), <<f, 4>>, FALSE, FALSE)} :
            f \in {2, 3, 5, 6}}

castlingBoard(color, fresh, long, short, extra) ==
  boardOf({Piece("King", color, <<4, homeRank(color)>>, FALSE, fresh),
           Piece("King", otherColor(color),
                 <<4, homeRank(otherColor(color))>>, FALSE, FALSE)}
          \cup cornerPieces(color, 0, long)
          \cup cornerPieces(color, 7, short)
          \cup extra)

InitCastle ==
  /\ \E color \in {"Light", "Dark"}, fresh \in BOOLEAN :
       \E long \in CornerChoices(color), short \in CornerChoices(color) :
         \E extra \in CastleExtras(color) :
           board = castlingBoard(color, fresh, long, short, extra)
  /\ selectedPiece = null
  /\ detached = FALSE
  /\ draggingPiece = FALSE
  /\ outbox = noMessage
  /\ last = [event |-> "init", applied |-> noMove]
  /\ moves = 0
  /\ sets = 0
  /\ probe = noProbe
  /\ heap = noHeap
  /\ session = noSession

\* isMoveLegal for a king of the board standing on its home square
NextCastle ==
  /\ probe = noProbe
  /\ \E from \in {<<4, 0>>, <<4, 7>>}, to \in Squares :
       /\ board[from].type = "King"
       /\ CallIsMoveLegal(from, to)

SpecCastle == InitCastle /\ [][NextCastle]_vars

\* ------------------------------------- the standalone variant (part_000)
\* src/unnamed/part_000 holds a copy of the detector and the validator that
\* differs from main.ts in two places: the switch of isInCheck has no case
\* for PieceType.King, and the Dark pawn's double step tests the square at
\* newLocation.y - 1 where main.ts tests newLocation.y + 1.
\* switch (attacker.type) of the variant: the cases of main.ts but the last
attackerHitsStandalone(b, attacker, king) ==
  /\ attacker.type # "King"
  /\ attackerHits(b, attacker, king)

\* isInCheck of the variant
isInCheckStandalone(b, color) ==
  LET king == kingPosition(b, color)
  IN IF king = <<-1, -1>> THEN FALSE
     ELSE \E s \in Squares :
            /\ b[s] # null
            /\ b[s].color # color
            /\ attackerHitsStandalone(b, b[s], king)

\* case PieceType.Pawn of the variant: both colours test the square at
\* newLocation.y - 1 on the double step
pawnLegalStandalone(b, piece, to) ==
  LET px == piece.position[1]
      py == piece.position[2]
      fwd == IF piece.color = "Light" THEN 1 ELSE -1
      behind == <<to[1], to[2] - fwd>>
      below == <<to[1], to[2] - 1>>
  IN \/ /\ to = <<px, py + fwd>>
        /\ b[to] = null
     \/ /\ piece.notMoved
        /\ to = <<px, py + 2 * fwd>>
        /\ b[to] = null
        /\ b[below] = null
     \/ /\ to = <<px + 1, py + fwd>> \/ to = <<px - 1, py + fwd>>
        /\ \/ b[to] # null
           \/ /\ b[behind] # null
              /\ b[behind].enPassant
              /\ b[behind].color # piece.color

\* case PieceType.King of the variant: the text of main.ts, with the
\* variant's isInCheck on midCastleState
kingLegalStandalone(b, piece, to) ==
  LET px == piece.position[1]
      py == piece.position[2]
      dx == to[1] - px
      dy == to[2] - py
      longCastle == dx < 0
      passed == <<px + (IF longCastle THEN -1 ELSE 1), py>>
      corner == <<IF longCastle THEN 0 ELSE 7, py>>
      midCastleState == [copyState(b) EXCEPT ![piece.position] = null,
                                             ![passed] = piece]
  IN \/ Abs(dx) <= 1 /\ Abs(dy) <= 1
     \/ /\ dy = 0
        /\ Abs(dx) = 2
        /\ piece.notMoved
        /\ ~isInCheckStandalone(midCastleState, piece.color)
        /\ b[passed] = null
        /\ b[corner] # null
        /\ b[corner].type = "Rook"
        /\ b[corner].notMoved = TRUE

\* switch (piece.type) of the variant; the cases for knight, bishop, rook
\* and queen are those of main.ts
shapeLegalStandalone(b, piece, to) ==
  CASE piece.type = "Pawn" -> pawnLegalStandalone(b, piece, to)
    [] piece.type = "King" -> kingLegalStandalone(b, piece, to)
    [] OTHER -> shapeLegal(b, piece, to)

\* isMoveLegal of the variant.  A Dark pawn's double step onto rank 0 reads
\* board.squares[x][-1].occupant, which throws.
isMoveLegalStandalone(b, piece, to) ==
  IF to[1] > 8 \/ to[1] < 0 \/ to[2] > 8 \/ to[2] < 0 THEN "false"
  ELSE IF piece.position = to THEN "false"
  ELSE IF to[1] = 8 \/ to[2] = 8 THEN "TypeError"
  ELSE IF b[to] # null /\ b[to].color = piece.color THEN "false"
  ELSE IF isInCheckStandalone(speculativeBoard(b, piece, to), piece.color)
       THEN "false"
  ELSE IF /\ piece.type = "Pawn"
          /\ piece.color = "Dark"
          /\ piece.notMoved
          /\ to = <<piece.position[1], piece.position[2] - 2>>
          /\ to[2] = 0
          /\ b[to] = null
       THEN "TypeError"
  ELSE IF shapeLegalStandalone(b, piece, to) THEN "true"
  ELSE "false"

\* boards handed to the variant: the pawn boards of the validator, and the
\* two kings alone, one on e4 and the other two squares away from it
KingsApart ==
  {s \in Squares : Max(Abs(s[1] - 4), Abs(s[2] - 3)) = 2}

kingsBoard(color, other) ==
  boardOf({Piece("King", color, <<4, 3>>, FALSE, FALSE),
           Piece("King", otherColor(color), other, FALSE, FALSE)})

InitStandalone ==
  /\ \/ \E color \in {"Light", "Dark"} :
          \E at \in PawnSquares(color) :
            \/ board = pawnBoard(color, at, {})
            \/ \E s \in PawnArea \ {at}, otherPawn \in {"Light", "Dark"},
                  flag \in BOOLEAN :
                 board = pawnBoard(color, at,
                                   {Piece("Pawn", otherPawn, s, flag, FALSE)})
     \/ \E color \in {"Light", "Dark"}, other \in KingsApart :
          board = kingsBoard(color, other)
  /\ selectedPiece = null
  /\ detached = FALSE
  /\ draggingPiece = FALSE
  /\ outbox = noMessage
  /\ last = [event |-> "init", applied |-> noMove]
  /\ moves = 0
  /\ sets = 0
  /\ probe = noProbe
  /\ heap = noHeap
  /\ session = noSession

\* isMoveLegal(board, piece, newLocation) of the variant
CallIsMoveLegalStandalone(from, to) ==
  /\ probe = noProbe
  /\ board[from] # null
  /\ probe' = [fn |-> "isMoveLegal", piece |-> board[from], to |-> to,
               color |-> board[from].color, serial |-> <<>>,
               result |-> isMoveLegalStandalone(board, board[from], to)]
  /\ UNCHANGED session
  /\ UNCHANGED <<board, selectedPiece, detached, draggingPiece, outbox, last,
                 moves, sets, heap>>

\* isInCheck(board, color) of the variant
CallIsInCheckStandalone(color) ==
  /\ probe = noProbe
  /\ probe' = [fn |-> "isInCheck", piece |-> null, to |-> undefined,
               color |-> color, serial |-> <<>>,
               result |-> IF isInCheckStandalone(board, color)
                          THEN "true" ELSE "false"]
  /\ UNCHANGED session
  /\ UNCHANGED <<board, selectedPiece, detached, draggingPiece, outbox, last,
                 moves, sets, heap>>

NextStandalone ==
  \/ /\ probe = noProbe
     /\ \E from \in Squares, to \in Squares :
          /\ board[from] # null
          /\ CallIsMoveLegalStandalone(from, to)
  \/ /\ probe = noProbe
     /\ \E color \in {"Light", "Dark"} : CallIsInCheckStandalone(color)

SpecStandalone == InitStandalone /\ [][NextStandalone]_vars

\* ------------------------------------------- boards and pieces as objects
\* The object graph behind a board: heap.boards[id] is a ChessBoard object,
\* an 8 x 8 grid of BoardSquare objects of its own whose occupant is a
\* reference into heap.pieces, or 0 for null; heap.pieces[ref] is a
\* ChessPiece object with its PieceState.

\* the objects of a board given by value: one ChessPiece per occupant and
\* one ChessBoard referring to them
allocate(b) ==
  LET order == occupiedInOrder(b)
  IN [boards |-> <<[s \in Squares |->
                     IF b[s] = null THEN 0
                     ELSE CHOOSE n \in DOMAIN order : order[n] = s]>>,
      pieces |-> [n \in DOMAIN order |-> b[order[n]]]]

\* what is read through the ChessBoard object `id`: the occupant of each
\* square with its type, colour and state
viewOf(h, id) ==
  [s \in Squares |->
     IF h.boards[id][s] = 0 THEN null ELSE h.pieces[h.boards[id][s]]]

\* a copy that is the board itself
copyStateObject_sameBoard(h, id) == [heap |-> h, id |-> id]

\* board.copyState() on objects: new ChessBoard() with new squares, each
\* given the occupant reference of the copied board's square
copyStateObject(h, id) ==
  [heap |-> [h EXCEPT !.boards = Append(@, copyState(h.boards[id]))],
   id |-> Len(h.boards) + 1]

\* the assignments of isMoveLegal(board id, piece ref, to): the heap when
\* the call returns or throws.  The only writes are to the squares of
\* newBoardState and midCastleState.
isMoveLegalObject(h, id, ref, to) ==
  LET b == viewOf(h, id)
      piece == h.pieces[ref]
      from == piece.position
      dx == to[1] - from[1]
      dy == to[2] - from[2]
      new == copyStateObject(h, id)
      h1 == [new.heap EXCEPT !.boards[new.id][from] = 0,
                             !.boards[new.id][to] = ref]
      mid == copyStateObject(h1, id)
      passed == <<from[1] + (IF dx < 0 THEN -1 ELSE 1), from[2]>>
      h2 == [mid.heap EXCEPT !.boards[mid.id][from] = 0,
                             !.boards[mid.id][passed] = ref]
  IN IF to[1] > 8 \/ to[1] < 0 \/ to[2] > 8 \/ to[2] < 0 THEN h
     ELSE IF from = to THEN h
     ELSE IF to[1] = 8 \/ to[2] = 8 THEN h
     ELSE IF b[to] # null /\ b[to].color = piece.color THEN h
     ELSE IF isInCheck(viewOf(h1, new.id), piece.color) THEN h1
     ELSE IF /\ piece.type = "King"
             /\ Abs(dx) > 1 \/ Abs(dy) > 1
             /\ dy = 0
             /\ Abs(dx) = 2
             /\ piece.notMoved
          THEN h2
     ELSE h1

\* the assignments of isInCheck(board id, color): it assigns only to its
\* local kingPosition and obstructed
isInCheckObject(h, id, color) == h

\* the boards turned into objects
ObjectBoards == PayloadBoards

\* the values a caller holding a board can give to a field of a piece it
\* reaches through a square
PieceChanges ==
  {[field |-> "position", value |-> sq] : sq \in Squares}
    \cup {[field |-> f, value |-> v] :
            f \in {"enPassant", "notMoved"}, v \in BOOLEAN}

changePiece(p, change) ==
  CASE change.field = "position" -> [p EXCEPT !.position = change.value]
    [] change.field = "enPassant" -> [p EXCEPT !.enPassant = change.value]
    [] change.field = "notMoved" -> [p EXCEPT !.notMoved = change.value]

\* board 1 is the original; `board` is what is read through it
InitObjects ==
  /\ board \in ObjectBoards
  /\ heap = allocate(board)
  /\ session = noSession
  /\ selectedPiece = null
  /\ detached = FALSE
  /\ draggingPiece = FALSE
  /\ outbox = noMessage
  /\ last = [event |-> "init", applied |-> noMove]
  /\ moves = 0
  /\ sets = 0
  /\ probe = noProbe

\* const other = board.copyState(): board 2 is the copy
CopyState ==
  /\ last.event = "init"
  /\ heap' = copyStateObject(heap, 1).heap
  /\ last' = [last EXCEPT !.event = "copied"]
  /\ UNCHANGED session
  /\ UNCHANGED <<board, selectedPiece, detached, draggingPiece, outbox,
                 moves, sets, probe>>

\* <through>.squares[sq].occupant = ref
PutOccupant(through, sq, ref) ==
  /\ last.event = "copied"
  /\ heap.boards[through][sq] # ref
  /\ heap' = [heap EXCEPT !.boards[through][sq] = ref]
  /\ board' = viewOf(heap', 1)
  /\ last' = [last EXCEPT !.event = "changed"]
  /\ UNCHANGED session
  /\ UNCHANGED <<selectedPiece, detached, draggingPiece, outbox, moves, sets,
                 probe>>

\* <through>.squares[sq].occupant.state.<field> = value
PutPieceState(through, sq, change) ==
  /\ last.event = "copied"
  /\ heap.boards[through][sq] # 0
  /\ LET ref == heap.boards[through][sq]
     IN /\ changePiece(heap.pieces[ref], change) # heap.pieces[ref]
        /\ heap' = [heap EXCEPT !.pieces[ref] = changePiece(@, change)]
  /\ board' = viewOf(heap', 1)
  /\ last' = [last EXCEPT !.event = "changed"]
  /\ UNCHANGED session
  /\ UNCHANGED <<selectedPiece, detached, draggingPiece, outbox, moves, sets,
                 probe>>

\* isMoveLegal(board 1, the occupant of `from`, to)
CallIsMoveLegalObject(from, to) ==
  /\ last.event = "init"
  /\ heap.boards[1][from] # 0
  /\ heap' = isMoveLegalObject(heap, 1, heap.boards[1][from], to)
  /\ board' = viewOf(heap', 1)
  /\ probe' = [fn |-> "isMoveLegal", piece |-> board[from], to |-> to,
               color |-> board[from].color, serial |-> <<>>,
               result |-> isMoveLegal(board, board[from], to)]
  /\ last' = [last EXCEPT !.event = "called"]
  /\ UNCHANGED session
  /\ UNCHANGED <<selectedPiece, detached, draggingPiece, outbox, moves, sets>>

\* isInCheck(board 1, color)
CallIsInCheckObject(color) ==
  /\ last.event = "init"
  /\ heap' = isInCheckObject(heap, 1, color)
  /\ board' = viewOf(heap', 1)
  /\ probe' = [fn |-> "isInCheck", piece |-> null, to |-> undefined,
               color |-> color, serial |-> <<>>,
               result |-> IF isInCheck(board, color) THEN "true" ELSE "false"]
  /\ last' = [last EXCEPT !.event = "called"]
  /\ UNCHANGED session
  /\ UNCHANGED <<selectedPiece, detached, draggingPiece, outbox, moves, sets>>

\* the phase of each disjunct is the first conjunct of its action, tested
\* here before the inputs are drawn
NextObjects ==
  \/ CopyState
  \/ /\ last.event = "copied"
     /\ \E through \in {1, 2}, sq \in Squares, ref \in 0..Len(heap.pieces) :
          PutOccupant(through, sq, ref)
  \/ /\ last.event = "copied"
     /\ \E through \in {1, 2}, sq \in Squares, change \in PieceChanges :
          PutPieceState(through, sq, change)
  \/ /\ last.event = "init"
     /\ \E from \in Squares, to \in ProbeTargets :
          CallIsMoveLegalObject(from, to)
  \/ /\ last.event = "init"
     /\ \E color \in {"Light", "Dark"} : CallIsInCheckObject(color)

SpecObjects == InitObjects /\ [][NextObjects]_vars

\* ------------------------------------------------ the session and reset
\* The server is not part of the client source.  Its handling of `reset` is
\* taken from the protocol description: the canonical board becomes the
\* standard setup and its encoding is broadcast to every participant.  The
\* two participants are this client (`board`) and a peer (session.peer)
\* running the same client code; session.pending[c] holds the `set`
\* payloads on their way to participant c.
MaxResets == 2

Participants == {1, 2}

\* the standard setup of the server: the position App.initializePieces
\* builds
standardSetup == initializePieces

InitSession ==
  /\ board \in PayloadBoards
  /\ selectedPiece = null
  /\ detached = FALSE
  /\ draggingPiece = FALSE
  /\ outbox = noMessage
  /\ last = [event |-> "init", applied |-> noMove]
  /\ moves = 0
  /\ sets = 0
  /\ probe = noProbe
  /\ heap = noHeap
  /\ \E canonical \in PayloadBoards :
       session = [noSession EXCEPT !.canonical = canonical,
                                   !.start = canonical,
                                   !.peer = canonical]

\* the keydown listener for 'r' of participant c: socket.emit("reset")
EmitReset(c) ==
  /\ session.requests + session.resets < MaxResets
  /\ session' = [session EXCEPT !.requests = @ + 1]
  /\ outbox' = IF c = 1 THEN resetMessage ELSE outbox
  /\ last' = [last EXCEPT !.event = "reset"]
  /\ UNCHANGED <<board, selectedPiece, detached, draggingPiece, moves, sets,
                 probe, heap>>

\* the server handles one `reset` request
SessionReset ==
  /\ session.requests > 0
  /\ session' =
       [session EXCEPT
          !.requests = @ - 1,
          !.resets = @ + 1,
          !.canonical = standardSetup,
          !.pending = [c \in Participants |->
                         Append(@[c], toSerial(standardSetup))]]
  /\ last' = [last EXCEPT !.event = "session reset"]
  /\ UNCHANGED <<board, selectedPiece, detached, draggingPiece, outbox, moves,
                 sets, probe, heap>>

\* socket.on("set") of participant c for the oldest payload on its way; when
\* fromSerial throws, setBoard does not run and the board and its occupants
\* stay as they are
Deliver(c) ==
  /\ session.pending[c] # <<>>
  /\ LET state == Head(session.pending[c])
         local == IF c = 1 THEN board ELSE session.peer
         after == IF fromSerialThrows(state) THEN local
                  ELSE setBoard(local, fromSerial(state))
     IN /\ board' = IF c = 1 THEN after ELSE board
        /\ session' = [session EXCEPT
                         !.peer = IF c = 2 THEN after ELSE @,
                         !.pending[c] = Tail(@),
                         !.received[c] = @ + 1]
  /\ IF fromSerialThrows(Head(session.pending[c]))
     THEN /\ last' = [last EXCEPT !.event = "set threw"]
          /\ UNCHANGED detached
     ELSE /\ last' = [last EXCEPT !.event = "set"]
          /\ detached' = IF c = 1 THEN selectedPiece # null ELSE detached
  /\ outbox' = IF c = 1 THEN noMessage ELSE outbox
  /\ UNCHANGED <<selectedPiece, draggingPiece, moves, sets, probe, heap>>

NextSession ==
  \/ \E c \in Participants : EmitReset(c)
  \/ SessionReset
  \/ \E c \in Participants : Deliver(c)

SpecSession == InitSession /\ [][NextSession]_vars

\* =================================================================== claims
\* the rules of attack stated on squares, independently of the scans of
\* isInCheck: the squares strictly between two squares of a common rank,
\* file or diagonal
forward(color) == IF color = "Light" THEN 1 ELSE -1

SquaresBetween(a, c) ==
  {s \in Squares :
     /\ s # a
     /\ s # c
     /\ \/ a[1] = c[1]
        \/ a[2] = c[2]
        \/ Abs(a[1] - c[1]) = Abs(a[2] - c[2])
     /\ Min(a[1], c[1]) <= s[1] /\ s[1] <= Max(a[1], c[1])
     /\ Min(a[2], c[2]) <= s[2] /\ s[2] <= Max(a[2], c[2])
     /\ (s[1] - a[1]) * (c[2] - a[2]) = (s[2] - a[2]) * (c[1] - a[1])}

\* the occupant of `from` attacks the square `target`
Attacks(b, from, target) ==
  LET p == b[from]
      adx == Abs(target[1] - from[1])
      ady == Abs(target[2] - from[2])
      clear == \A s \in SquaresBetween(from, target) : b[s] = null
      onLine == (adx = 0 /\ ady > 0) \/ (ady = 0 /\ adx > 0)
      onDiagonal == adx = ady /\ adx > 0
  IN \/ p.type = "Pawn" /\ adx = 1 /\ target[2] = from[2] + forward(p.color)
     \/ p.type = "Knight" /\ {adx, ady} = {1, 2}
     \/ p.type = "Bishop" /\ onDiagonal /\ clear
     \/ p.type = "Rook" /\ onLine /\ clear
     \/ p.type = "Queen" /\ (onLine \/ onDiagonal) /\ clear
     \/ p.type = "King" /\ Max(adx, ady) = 1

\* some piece of the other colour attacks the square of a king of `color`
KingAttacked(b, color) ==
  \E k \in Squares :
    /\ b[k].type = "King"
    /\ b[k].color = color
    /\ \E s \in Squares :
         /\ b[s] # null
         /\ b[s].color # color
         /\ Attacks(b, s, k)

\* the board with the occupant of `from` lifted and `piece` standing on `to`
Relocated(b, piece, from, to) ==
  [b EXCEPT ![from] = null, ![to] = [piece EXCEPT !.position = to]]

\* C1: no move of a piece of the board that isMoveLegal accepted and
\* onPiecePlaced applied leaves the mover's own king in check.
C1_NoSelfCheckAfterMove ==
  last.applied.onBoard => ~isInCheck(board, last.applied.piece.color)

\* C2: isMoveLegal returns false for every move whose speculative board
\* (origin emptied, the piece on the destination) has the mover's king
\* attacked, whatever the piece kind and its shape rule.
C2_SelfCheckRejected ==
  (/\ probe.fn = "isMoveLegal"
   /\ probe.to \in Squares
   /\ probe.to # probe.piece.position
   /\ KingAttacked(Relocated(board, probe.piece, probe.piece.position,
                             probe.to),
                   probe.piece.color))
    => probe.result = "false"

\* a shape-legal move of a piece onto a free or enemy square was rejected
\* because the king would be attacked
C2_Witness ==
  /\ probe.fn = "isMoveLegal"
  /\ probe.to \in Squares
  /\ probe.to # probe.piece.position
  /\ probe.piece.type = "Rook"
  /\ board[probe.to] = null
  /\ shapeLegal(board, probe.piece, probe.to)
  /\ KingAttacked(Relocated(board, probe.piece, probe.piece.position,
                            probe.to),
                  probe.piece.color)
  /\ probe.result = "false"

\* C3: isMoveLegal returns false, as a normal result, for every destination
\* whose file or rank lies outside 0..7, 8 included.
C3_OffBoardReturnsFalse ==
  (probe.fn = "isMoveLegal" /\ probe.to \notin Squares)
    => probe.result = "false"

\* the 6-character records of a serial string taken in another order
reorder(serial, perm) ==
  [n \in 1..Len(serial) |->
     serial[6 * (perm[((n - 1) \div 6) + 1] - 1) + ((n - 1) % 6) + 1]]

\* orders of n records: reversed, rotated by one, the first two exchanged
RecordOrders(n) ==
  {[k \in 1..n |-> n + 1 - k],
   [k \in 1..n |-> (k % n) + 1],
   [k \in 1..n |-> IF k = 1 THEN Min(2, n) ELSE IF k = 2 THEN 1 ELSE k]}

\* C4: decoding the encoding of a reachable board gives the same occupied
\* squares with the same kind, colour, coordinate and flags, and so does
\* decoding the records in another order.
C4_RoundTrip ==
  LET serial == toSerial(board)
  IN /\ fromSerial(serial) = board
     /\ \A perm \in RecordOrders(Len(serial) \div 6) :
          fromSerial(reorder(serial, perm)) = board

\* a board reached by an applied two-square advance: it holds a piece with
\* each flag set and a piece with each flag cleared
C4_Witness ==
  /\ last.event = "moved"
  /\ \E s \in Squares : board[s].enPassant /\ ~board[s].notMoved
  /\ \E s \in Squares : board[s] # null /\ board[s].notMoved
  /\ fromSerial(toSerial(board)) = board

\* C5: right after a two-square advance of a pawn of the board an enemy pawn beside the advanced
\* pawn may capture onto the jumped-over square whenever the position after
\* the capture leaves its king out of check; after any other applied move
\* the advanced pawn's flag is false and that capture is rejected.
C5_EnPassantWindow ==
  LET m == last.applied
      adv == board[m.to]
      jumped == <<m.to[1], m.to[2] - forward(adv.color)>>
      afterCapture(s) ==
        [Relocated(board, board[s], s, jumped) EXCEPT ![m.to] = null]
  IN m.onBoard =>
       /\ (/\ m.before[m.from].type = "Pawn"
           /\ m.to[1] = m.from[1]
           /\ Abs(m.to[2] - m.from[2]) = 2
           /\ adv.type = "Pawn")
            => \A s \in Squares :
                 (/\ board[s].type = "Pawn"
                  /\ board[s].color # adv.color
                  /\ s[2] = m.to[2]
                  /\ Abs(s[1] - m.to[1]) = 1
                  /\ ~KingAttacked(afterCapture(s), board[s].color))
                   => isMoveLegal(board, board[s], jumped) = "true"
       /\ \A q \in Squares :
            (/\ m.before[q].enPassant
             /\ board[q].type = "Pawn"
             /\ board[q].color = m.before[q].color)
              => /\ ~board[q].enPassant
                 /\ \A s \in Squares :
                      (/\ board[s].type = "Pawn"
                       /\ board[s].color # board[q].color
                       /\ s[2] = q[2]
                       /\ Abs(s[1] - q[1]) = 1
                       /\ board[<<q[1], q[2] - forward(board[q].color)>>]
                            = null)
                        => isMoveLegal(board, board[s],
                                       <<q[1], q[2] - forward(board[q].color)>>)
                             = "false"

\* the conditions of castling for `king` moving to `to`: king and corner
\* rook of its colour unmoved, nothing between them, and the king attacked
\* neither on the square it passes nor on its destination
CastlingConditions(b, king, to) ==
  LET from == king.position
      side == IF to[1] < from[1] THEN -1 ELSE 1
      corner == <<IF side < 0 THEN 0 ELSE 7, from[2]>>
      passed == <<from[1] + side, from[2]>>
  IN /\ king.type = "King"
     /\ king.notMoved
     /\ to = <<from[1] + 2 * side, from[2]>>
     /\ b[corner].type = "Rook"
     /\ b[corner].color = king.color
     /\ b[corner].notMoved
     /\ \A s \in SquaresBetween(from, corner) : b[s] = null
     /\ ~KingAttacked(Relocated(b, king, from, passed), king.color)
     /\ ~KingAttacked(Relocated(b, king, from, to), king.color)

\* C6: when the castling conditions hold, isMoveLegal returns true for the
\* king's two-file move toward the rook, on either side, for either colour.
C6_CastlingAccepted ==
  (probe.fn = "isMoveLegal" /\ CastlingConditions(board, probe.piece, probe.to))
    => probe.result = "true"

\* a long-side castling of the Dark king was accepted
C6_Witness ==
  /\ probe.fn = "isMoveLegal"
  /\ CastlingConditions(board, probe.piece, probe.to)
  /\ probe.piece.color = "Dark"
  /\ probe.to[1] < probe.piece.position[1]
  /\ probe.result = "true"

\* C7: after an accepted castling move has been applied the king is on its
\* destination and the corner rook on the square the king passed, the
\* king's origin and the corner are empty, both have hasNotMoved false and
\* coordinates equal to their squares; no handler sees only one moved.
C7_CastlingRelocatesBoth ==
  LET m == last.applied
      long == m.to[1] < m.from[1]
      corner == <<IF long THEN 0 ELSE 7, m.from[2]>>
      mid == <<m.from[1] + (IF long THEN -1 ELSE 1), m.from[2]>>
  IN (/\ m.piece # null
      /\ m.piece.type = "King"
      /\ Abs(m.to[1] - m.from[1]) = 2)
       => /\ board[m.to].type = "King"
          /\ board[m.to].color = m.piece.color
          /\ board[m.to].position = m.to
          /\ ~board[m.to].notMoved
          /\ board[mid].type = "Rook"
          /\ board[mid].position = mid
          /\ ~board[mid].notMoved
          /\ board[m.from] = null
          /\ board[corner] = null

\* C8: an enemy rook or queen on the file or on the rank of the king of
\* `color` is counted as an attacker by isInCheck if and only if every
\* square strictly between it and the king is unoccupied.
C8_LineAttackIffClear ==
  \A k \in Squares :
    board[k].type = "King" =>
      \A s \in Squares :
        (/\ board[s].type \in {"Rook", "Queen"}
         /\ board[s].color # board[k].color
         /\ s[1] = k[1] \/ s[2] = k[2])
          => /\ attackerHits(board, board[s], k)
                 <=> \A t \in SquaresBetween(s, k) : board[t] = null
             /\ (/\ probe.fn = "isInCheck"
                 /\ probe.color = board[k].color
                 /\ \A t \in SquaresBetween(s, k) : board[t] = null)
                  => probe.result = "true"

\* isInCheck answered false for a king with an enemy rook on its file and a
\* piece standing between them
C8_Witness ==
  /\ probe.fn = "isInCheck"
  /\ probe.result = "false"
  /\ \E k \in Squares, s \in Squares :
       /\ board[k].type = "King"
       /\ board[k].color = probe.color
       /\ board[s].type = "Rook"
       /\ board[s].color # probe.color
       /\ s[1] = k[1]
       /\ \E t \in SquaresBetween(s, k) : board[t] # null

\* the relocations <<origin, arrival>> of the applied move m: the occupant
\* of the origin to the destination and, for castling, the occupant of the
\* corner to the square the king passed
Relocations(m) ==
  LET long == m.to[1] < m.from[1]
      corner == <<IF long THEN 0 ELSE 7, m.from[2]>>
      mid == <<m.from[1] + (IF long THEN -1 ELSE 1), m.from[2]>>
  IN (IF m.before[m.from] # null THEN {<<m.from, m.to>>} ELSE {})
       \cup (IF /\ m.piece.type = "King"
                /\ Abs(m.to[1] - m.from[1]) = 2
                /\ m.before[corner] # null
             THEN {<<corner, mid>>}
             ELSE {})

\* C9: every piece starts with hasNotMoved true; an applied move sets it to
\* false on the pieces it relocates (the mover, the castling rook) and
\* leaves it as it was on every other piece, so it never returns to true.
C9_HasNotMovedMonotone ==
  LET m == last.applied
  IN /\ (moves = 0 /\ sets = 0)
          => \A s \in Squares : board[s] # null => board[s].notMoved
     /\ m.piece # null =>
          /\ \A r \in Relocations(m) :
               /\ board[r[2]].type = m.before[r[1]].type
               /\ board[r[2]].color = m.before[r[1]].color
               /\ ~board[r[2]].notMoved
          /\ \A s \in Squares \ {r[2] : r \in Relocations(m)} :
               board[s] # null =>
                 /\ m.before[s] # null
                 /\ board[s].type = m.before[s].type
                 /\ board[s].color = m.before[s].color
                 /\ board[s].notMoved = m.before[s].notMoved

\* a castling has been applied: king and rook, unmoved before, both have
\* hasNotMoved false, and an unmoved piece elsewhere still has it true
C9_Witness ==
  LET m == last.applied
  IN /\ m.piece # null
     /\ m.piece.type = "King"
     /\ Abs(m.to[1] - m.from[1]) = 2
     /\ Cardinality(Relocations(m)) = 2
     /\ \A r \in Relocations(m) :
          m.before[r[1]].notMoved /\ ~board[r[2]].notMoved
     /\ \E s \in Squares \ {r[2] : r \in Relocations(m)} : board[s].notMoved

\* C10: after applied moves at most one piece has isEnPassantTarget true;
\* it is a pawn, it stands where the most recently applied move ended, and
\* that move was a two-square advance; the flag is clear on all others.
C10_SingleEnPassantTarget ==
  LET m == last.applied
      flagged == {s \in Squares : board[s].enPassant}
  IN (sets = 0 \/ m.piece # null) =>
       /\ Cardinality(flagged) <= 1
       /\ \A s \in flagged :
            /\ board[s].type = "Pawn"
            /\ m.piece # null
            /\ s = m.to
            /\ m.to[1] = m.from[1]
            /\ Abs(m.to[2] - m.from[2]) = 2

\* a pawn of the standard setup has just advanced two squares and carries
\* the flag
C10_Witness ==
  /\ sets = 0
  /\ last.applied.piece # null
  /\ board[last.applied.to].type = "Pawn"
  /\ board[last.applied.to].enPassant

\* C11: when isMoveLegal returns false for the dropped piece, the run of
\* onPiecePlaced leaves the board as it was (occupancy, every piece's
\* coordinate, isEnPassantTarget and hasNotMoved), leaves the dropped piece
\* as it was, and emits no `move` message.
C11_RejectedDropChangesNothing ==
  [][\A coords \in Squares :
       (/\ draggingPiece
        /\ ~draggingPiece'
        /\ selectedPiece # null
        /\ isMoveLegal(board, selectedPiece, coords) = "false"
        /\ PointerUp(coords))
         => /\ board' = board
            /\ selectedPiece' = selectedPiece
            /\ outbox'.name # "move"]_vars

\* a piece of the board was dropped on a square isMoveLegal refuses, and
\* the board still holds it where it was picked up
C11_Witness ==
  /\ last.event = "rejected"
  /\ selectedPiece # null
  /\ ~detached
  /\ board[selectedPiece.position] = selectedPiece
  /\ \E coords \in Squares :
       isMoveLegal(board, selectedPiece, coords) = "false"
  /\ outbox = noMessage

\* C12: handling an inbound set(s) leaves on each of the 64 squares exactly
\* what ChessBoard.fromSerial(s) holds there (empty, or a piece of that
\* kind, colour, coordinate and flags), whatever the board was before,
\* locally applied moves included.
C12_SetReplacesBoard ==
  [][\A s \in SetPayloads :
       (sets' = sets + 1 /\ Set(s))
         => \A q \in Squares : board'[q] = fromSerial(s)[q]]_vars

\* a set has been handled after a locally applied move: the board is the
\* decoded payload, and it differs from the board the move had produced
C12_Witness ==
  /\ last.event = "set"
  /\ moves > 0
  /\ \E s \in SetPayloads : board = fromSerial(s)
  /\ \E q \in Squares : board[q] = null /\ initializePieces[q] # null
  /\ \E q \in Squares : board[q] # null /\ initializePieces[q] = null

\* C13: a call of isMoveLegal or of isInCheck, whatever it returns, leaves
\* the board passed in with the same occupant on every square and every
\* piece with the same coordinate, isEnPassantTarget and hasNotMoved.
C13_ValidatorsSideEffectFree ==
  [][(/\ probe = noProbe
      /\ probe' # noProbe
      /\ heap' = IF probe'.fn = "isMoveLegal"
                 THEN isMoveLegalObject(heap, 1,
                                        heap.boards[1][probe'.piece.position],
                                        probe'.to)
                 ELSE isInCheckObject(heap, 1, probe'.color))
       => /\ heap'.boards[1] = heap.boards[1]
          /\ heap'.pieces = heap.pieces
          /\ board' = board]_vars

\* isMoveLegal has accepted a move: it built its speculative board, which
\* differs from the board passed in, and the board passed in reads as before
C13_Witness ==
  /\ last.event = "called"
  /\ probe.fn = "isMoveLegal"
  /\ probe.result = "true"
  /\ Len(heap.boards) > 1
  /\ viewOf(heap, 2) = speculativeBoard(board, probe.piece, probe.to)
  /\ viewOf(heap, 2) # board
  /\ viewOf(heap, 1) = board

\* C14: once copyState has returned, no change made through the copy (the
\* occupant of a square, or the coordinate or a flag of a piece reached
\* through it) alters what is read through the original, and no change
\* made through the original alters what is read through the copy.
C14_CopySharesNothing ==
  [][\A through \in {1, 2} :
       (/\ last.event = "copied"
        /\ last'.event = "changed"
        /\ \E sq \in Squares :
             \/ \E ref \in 0..Len(heap.pieces) : PutOccupant(through, sq, ref)
             \/ \E change \in PieceChanges : PutPieceState(through, sq, change))
         => viewOf(heap', 3 - through) = viewOf(heap, 3 - through)]_vars

\* C15: on a board that holds no king of `color`, isInCheck(board, color)
\* returns false as a normal result, whatever pieces of the other colour
\* stand on it.
C15_NoKingNotInCheck ==
  (/\ probe.fn = "isInCheck"
   /\ ~\E s \in Squares : board[s].type = "King" /\ board[s].color = probe.color)
    => probe.result = "false"

\* isInCheck answered false for a colour with no king while pieces of the
\* other colour, a rook among them, stand on the board
C15_Witness ==
  /\ probe.fn = "isInCheck"
  /\ ~\E s \in Squares : board[s].type = "King" /\ board[s].color = probe.color
  /\ \E s \in Squares : board[s].type = "Rook" /\ board[s].color # probe.color
  /\ \E s \in Squares : board[s] # null /\ board[s].color = probe.color
  /\ probe.result = "false"

\* the characters a record may hold at its kind, colour and flag positions
KindCharacters == {112, 110, 98, 114, 113, 107}
BitCharacters == {chr_0, chr_1}

\* a 6-character window of a serial string that is no well-formed record:
\* a character is missing (the string's length is no multiple of 6) or its
\* kind, colour, en-passant or has-not-moved character is outside its set
Malformed(chunk) ==
  \/ chunk[1] \notin KindCharacters
  \/ chunk[2] \notin BitCharacters
  \/ chunk[5] \notin BitCharacters
  \/ chunk[6] \notin BitCharacters

\* C16: ChessBoard.fromSerial never makes a piece out of a malformed record:
\* for every record that is cut short or has a kind, colour or flag
\* character outside its set, decoding ends in an error or leaves the square
\* the record names empty.
C16_MalformedRejected ==
  probe.fn = "fromSerial" =>
    \A k \in 1..chunkCount(probe.serial) :
      LET chunk == chunkAt(probe.serial, k)
          named == pieceFromSerial(chunk).position
      IN Malformed(chunk) =>
           \/ probe.result = "TypeError"
           \/ named \in Squares /\ board[named] = null

\* C18: on a board with exactly one king of `color` and every piece's
\* stored coordinate equal to its square, isInCheck(board, color) is true
\* if and only if some piece of the other colour attacks the king's square:
\* a pawn from one rank behind it in the pawn's direction on an adjacent
\* file, a knight at an L offset, a bishop along a clear diagonal, a rook
\* along a clear rank or file, a queen as either, a king from an adjacent
\* square.
C18_InCheckIffAttacked ==
  (/\ probe.fn = "isInCheck"
   /\ Cardinality({s \in Squares : /\ board[s].type = "King"
                                   /\ board[s].color = probe.color}) = 1
   /\ \A s \in Squares : board[s] # null => board[s].position = s)
    => (probe.result = "true" <=> KingAttacked(board, probe.color))

\* isInCheck answered true for a king attacked by a bishop along a falling
\* diagonal, with another piece standing next to the king off that diagonal
C18_Witness ==
  /\ probe.fn = "isInCheck"
  /\ probe.result = "true"
  /\ Cardinality({s \in Squares : board[s] # null}) = 3
  /\ \E k \in Squares, s \in Squares :
       /\ board[k].type = "King"
       /\ board[k].color = probe.color
       /\ board[s].type = "Bishop"
       /\ board[s].color # probe.color
       /\ s[1] - k[1] = k[2] - s[2]
       /\ Abs(s[1] - k[1]) >= 2
       /\ Attacks(board, s, k)

\* origin and destination lie on a line the kind of piece travels
OnLineOf(type, from, to) ==
  LET adx == Abs(to[1] - from[1])
      ady == Abs(to[2] - from[2])
      straight == (adx = 0 /\ ady > 0) \/ (ady = 0 /\ adx > 0)
      diagonal == adx = ady /\ adx > 0
  IN CASE type = "Bishop" -> diagonal
       [] type = "Rook" -> straight
       [] type = "Queen" -> diagonal \/ straight
       [] OTHER -> FALSE

\* C19: a bishop, rook or queen move that isMoveLegal accepts lies on a
\* diagonal (bishop, queen) or on a rank or file (rook, queen) with every
\* square strictly between origin and destination unoccupied; whatever the
\* direction of travel, a piece on a square strictly between makes it
\* rejected.
C19_SlidingNeedsClearPath ==
  (/\ probe.fn = "isMoveLegal"
   /\ probe.piece.type \in {"Bishop", "Rook", "Queen"}
   /\ probe.to \in Squares)
    => LET from == probe.piece.position
           between == SquaresBetween(from, probe.to)
       IN /\ probe.result = "true" =>
               /\ OnLineOf(probe.piece.type, from, probe.to)
               /\ \A s \in between : board[s] = null
          /\ (/\ OnLineOf(probe.piece.type, from, probe.to)
              /\ \E s \in between : board[s] # null)
               => probe.result = "false"

\* a queen's move down a falling diagonal onto an empty square was rejected
\* with one piece standing between, none of the kings being in check
C19_Witness ==
  /\ probe.fn = "isMoveLegal"
  /\ probe.piece.type = "Queen"
  /\ probe.to \in Squares
  /\ probe.to[1] - probe.piece.position[1] >= 3
  /\ probe.to[1] - probe.piece.position[1]
       = probe.piece.position[2] - probe.to[2]
  /\ board[probe.to] = null
  /\ Cardinality({s \in SquaresBetween(probe.piece.position, probe.to) :
                    board[s] # null}) = 1
  /\ ~KingAttacked(board, probe.piece.color)
  /\ probe.result = "false"

\* C20: isMoveLegal accepts a same-file move of a pawn only toward the
\* pawn's forward direction and either by one rank onto an empty square or
\* by two ranks with hasNotMoved true and the square passed and the
\* destination both empty; onto an occupied square, backward, or by three
\* ranks or more it is rejected.
C20_PawnStraightMoves ==
  (/\ probe.fn = "isMoveLegal"
   /\ probe.piece.type = "Pawn"
   /\ probe.to \in Squares
   /\ probe.to[1] = probe.piece.position[1])
    => LET from == probe.piece.position
           fwd == forward(probe.piece.color)
           ranks == (probe.to[2] - from[2]) * fwd
           passed == <<from[1], from[2] + fwd>>
       IN /\ probe.result = "true" =>
               \/ ranks = 1 /\ board[probe.to] = null
               \/ /\ ranks = 2
                  /\ probe.piece.notMoved
                  /\ board[passed] = null
                  /\ board[probe.to] = null
          /\ board[probe.to] # null => probe.result = "false"
          /\ ranks <= 0 => probe.result = "false"
          /\ ranks >= 3 => probe.result = "false"

\* the two-rank advance of an unmoved Dark pawn onto an empty square was
\* rejected because the square it passes is occupied
C20_Witness ==
  /\ probe.fn = "isMoveLegal"
  /\ probe.piece.type = "Pawn"
  /\ probe.piece.color = "Dark"
  /\ probe.piece.notMoved
  /\ probe.to = <<probe.piece.position[1], probe.piece.position[2] - 2>>
  /\ board[probe.to] = null
  /\ board[<<probe.piece.position[1], probe.piece.position[2] - 1>>] # null
  /\ probe.result = "false"

\* C21: isMoveLegal accepts a one-square diagonal move of a pawn only when
\* it goes forward and either the destination holds an enemy piece, or the
\* destination is empty and the square behind it (same file, one rank back
\* toward the mover) holds an enemy pawn with isEnPassantTarget true; a
\* diagonal move onto an empty square without such a pawn, and a diagonal
\* move backward, are rejected.
C21_PawnDiagonalMoves ==
  (/\ probe.fn = "isMoveLegal"
   /\ probe.piece.type = "Pawn"
   /\ probe.to \in Squares
   /\ Abs(probe.to[1] - probe.piece.position[1]) = 1
   /\ Abs(probe.to[2] - probe.piece.position[2]) = 1)
    => LET from == probe.piece.position
           fwd == forward(probe.piece.color)
           goesForward == probe.to[2] - from[2] = fwd
           behind == <<probe.to[1], probe.to[2] - fwd>>
           enemyThere == /\ board[probe.to] # null
                         /\ board[probe.to].color # probe.piece.color
           passingPawn == /\ board[probe.to] = null
                          /\ behind \in Squares
                          /\ board[behind] # null
                          /\ board[behind].type = "Pawn"
                          /\ board[behind].color # probe.piece.color
                          /\ board[behind].enPassant
       IN /\ probe.result = "true" =>
               goesForward /\ (enemyThere \/ passingPawn)
          /\ (board[probe.to] = null /\ ~passingPawn) =>
               probe.result = "false"
          /\ ~goesForward => probe.result = "false"

\* a Light pawn on e5 was allowed onto the empty d6 past the Dark pawn on
\* d5 that carries the flag
C21_Witness ==
  /\ probe.fn = "isMoveLegal"
  /\ probe.piece.type = "Pawn"
  /\ probe.piece.color = "Light"
  /\ probe.piece.position = <<4, 4>>
  /\ probe.to = <<3, 5>>
  /\ board[<<3, 5>>] = null
  /\ board[<<3, 4>>] # null
  /\ board[<<3, 4>>].color = "Dark"
  /\ board[<<3, 4>>].enPassant
  /\ probe.result = "true"

\* C22: whenever isMoveLegal accepts a king move of two files along its
\* rank, on any board, the king has hasNotMoved true, the square it passes
\* is not attacked, and the corner of that side (file 0 on the long side,
\* file 7 on the short side) holds a rook of the king's own colour with
\* hasNotMoved true.
C22_CastlingRequirements ==
  (/\ probe.fn = "isMoveLegal"
   /\ probe.piece.type = "King"
   /\ probe.to \in Squares
   /\ probe.to[2] = probe.piece.position[2]
   /\ Abs(probe.to[1] - probe.piece.position[1]) = 2
   /\ probe.result = "true")
    => LET from == probe.piece.position
           side == IF probe.to[1] < from[1] THEN -1 ELSE 1
           corner == <<IF side < 0 THEN 0 ELSE 7, from[2]>>
           passed == <<from[1] + side, from[2]>>
       IN /\ probe.piece.notMoved
          /\ ~KingAttacked(Relocated(board, probe.piece, from, passed),
                           probe.piece.color)
          /\ board[corner] # null
          /\ board[corner].type = "Rook"
          /\ board[corner].color = probe.piece.color
          /\ board[corner].notMoved

\* the squares, other than the origin and the destination of the applied
\* move m, whose occupant before the move is no longer on the board: it
\* neither stands where it stood nor has come to a square that was empty
RemovedElsewhere(m, b) ==
  {s \in Squares \ {m.from, m.to} :
     /\ m.before[s] # null
     /\ ~\E t \in Squares \ {m.to} :
           /\ b[t] # null
           /\ b[t].type = m.before[s].type
           /\ b[t].color = m.before[s].color
           /\ t = s \/ m.before[t] = null}

\* C23: applying an accepted move of a piece of the board removes a piece
\* from a square other than the destination only when a pawn moves
\* diagonally onto an empty square, and then the piece removed is the enemy
\* pawn directly behind the destination; a move onto an occupied square
\* removes only the destination's occupant.
C23_RemovalOnlyEnPassant ==
  LET m == last.applied
      behind == <<m.to[1], m.to[2] - forward(m.piece.color)>>
  IN m.onBoard =>
       /\ \A s \in RemovedElsewhere(m, board) :
            /\ m.piece.type = "Pawn"
            /\ m.to[1] # m.from[1]
            /\ m.before[m.to] = null
            /\ s = behind
            /\ m.before[s].type = "Pawn"
            /\ m.before[s].color # m.piece.color
       /\ m.before[m.to] # null => RemovedElsewhere(m, board) = {}

\* C24: a pointer-up that runs onPiecePlaced emits a "move" message exactly
\* when isMoveLegal accepts the drop; the message carries the coordinate
\* string of the square the piece occupied before the move and that of the
\* destination, and the local board is changed in the same handler run.
C24_MoveEmittedIffAccepted ==
  [][(draggingPiece /\ ~draggingPiece')
       => /\ outbox'.name = "move" =>
               LET to == chessCoords2vec(outbox'.args[2])
               IN /\ selectedPiece # null
                  /\ to \in Squares
                  /\ isMoveLegal(board, selectedPiece, to) = "true"
                  /\ outbox'.args[1] = vec2ChessCoords(selectedPiece.position)
                  /\ board[selectedPiece.position] = selectedPiece
                  /\ board' = applyMove(board, selectedPiece, detached, to)
                  /\ board' # board
                  /\ board'[to] # null
                  /\ board'[to].type = selectedPiece.type
                  /\ board'[to].color = selectedPiece.color
          /\ outbox'.name # "move" =>
               /\ board' = board
               /\ selectedPiece # null =>
                    \A coords \in Squares :
                      isMoveLegal(board, selectedPiece, coords) = "true"
                        => ~PointerUp(coords)]_vars

\* C25: whenever onPiecePlaced validates, emits or applies a move, the
\* selected piece is the object that occupies, on the local board, the
\* square of its stored coordinate; a "set" handled between pointer-down
\* and pointer-up never lets a piece of the replaced board be validated or
\* moved on the new one.
C25_SelectionIsOccupant ==
  [][(/\ draggingPiece
      /\ ~draggingPiece'
      /\ selectedPiece # null
      /\ last'.event \in {"moved", "rejected"})
       => /\ ~detached
          /\ board[selectedPiece.position] = selectedPiece]_vars

\* C26: after the standard setup and after any applied moves and "set"
\* replacements, every occupied square holds a piece whose stored
\* coordinate is that square; a piece has one stored coordinate, so none
\* occupies two squares.
C26_CoordinateMatchesSquare ==
  \A s \in Squares : board[s] # null => board[s].position = s

\* a capture applied on a board a "set" had installed: the capturing piece
\* stands on the destination with the destination as its coordinate
C26_Witness ==
  /\ sets > 0
  /\ last.event = "moved"
  /\ last.applied.onBoard
  /\ last.applied.before[last.applied.to] # null
  /\ board[last.applied.from] = null
  /\ board[last.applied.to].position = last.applied.to
  /\ board[last.applied.to].type = last.applied.piece.type

\* the pieces of a board of one kind and colour
PiecesOf(b, type, color) ==
  {s \in Squares : b[s] # null /\ b[s].type = type /\ b[s].color = color}

Count(b, type, color) == Cardinality(PiecesOf(b, type, color))

AllKinds == {"Pawn", "Knight", "Bishop", "Rook", "Queen", "King"}

\* C27: in play from the standard setup an applied move adds no piece,
\* changes no piece's kind or colour, and removes at most one piece, which
\* is of the colour opposite to the mover; so no count of a kind and colour
\* grows, and each colour has at most one king.
C27_PiecesOnlyLeave ==
  LET m == last.applied
      mover == m.piece.color
      lost(type, color) == Count(m.before, type, color) - Count(board, type, color)
  IN /\ \A color \in {"Light", "Dark"} : Count(board, "King", color) <= 1
     /\ m.piece # null =>
          /\ \A type \in AllKinds : lost(type, mover) = 0
          /\ \A type \in AllKinds : lost(type, otherColor(mover)) \in {0, 1}
          /\ Cardinality({type \in AllKinds :
                            lost(type, otherColor(mover)) = 1}) <= 1

\* an en-passant capture was applied: the board lost one pawn of the
\* colour opposite to the mover from a square that is not the destination
C27_Witness ==
  /\ last.event = "moved"
  /\ last.applied.piece.type = "Pawn"
  /\ last.applied.before[last.applied.to] = null
  /\ last.applied.to[1] # last.applied.from[1]
  /\ Count(last.applied.before, "Pawn", otherColor(last.applied.piece.color))
       = Count(board, "Pawn", otherColor(last.applied.piece.color)) + 1

\* the number of pieces on a board
PieceCount(b) == Cardinality({s \in Squares : b[s] # null})

\* C28: castling never jumps over or captures a piece: when an accepted
\* king move of two files has been applied, every square strictly between
\* the king and the corner of that side, the king's destination included,
\* was empty, and the board has lost no piece.
C28_CastlingPathEmpty ==
  LET m == last.applied
      corner == <<IF m.to[1] < m.from[1] THEN 0 ELSE 7, m.from[2]>>
  IN (/\ m.onBoard
      /\ m.piece.type = "King"
      /\ m.to[2] = m.from[2]
      /\ Abs(m.to[1] - m.from[1]) = 2)
       => /\ \A s \in SquaresBetween(m.from, corner) : m.before[s] = null
          /\ PieceCount(board) = PieceCount(m.before)

\* C29: the variant's isMoveLegal accepts a Dark pawn's two-square advance
\* (rank decreasing by 2) only if hasNotMoved is true and both the
\* destination and the square between origin and destination are empty.
C29_StandaloneDarkDoubleStep ==
  (/\ probe.fn = "isMoveLegal"
   /\ probe.piece.type = "Pawn"
   /\ probe.piece.color = "Dark"
   /\ probe.to = <<probe.piece.position[1], probe.piece.position[2] - 2>>
   /\ probe.result = "true")
    => /\ probe.piece.notMoved
       /\ board[probe.to] = null
       /\ board[<<probe.to[1], probe.to[2] + 1>>] = null

\* C30: the variant's isMoveLegal rejects every king move whose destination
\* is adjacent to the enemy king.
C30_StandaloneKingsApart ==
  (/\ probe.fn = "isMoveLegal"
   /\ probe.piece.type = "King"
   /\ probe.to \in Squares
   /\ \E k \in Squares :
        /\ board[k].type = "King"
        /\ board[k].color # probe.piece.color
        /\ k # probe.to
        /\ Max(Abs(k[1] - probe.to[1]), Abs(k[2] - probe.to[2])) = 1)
    => probe.result = "false"

====
